---- MODULE Spec2Model ----
(***************************************************************************)
(* A model of the PySys test-execution engine: the process-user substrate  *)
(* (pysys/process/user.py), the test container and the runner              *)
(* (pysys/baserunner.py), the performance reporter                         *)
(* (pysys/utils/perfreporter.py).                                          *)
(*                                                                         *)
(* The module holds several specifications over one set of variables; each *)
(* drives one part of the engine and leaves the other variables alone:     *)
(*   SpecOutcome    the outcome list of an actor (addOutcome, getOutcome)  *)
(*   SpecAlloc      allocateUniqueStdOutErr                                *)
(*   SpecProcess    startProcess, stopProcess, waitProcess, cleanup        *)
(*   SpecCleanup    addCleanupFunction and cleanup, called repeatedly      *)
(*   SpecContainer  one call of a TestContainer                            *)
(*   SpecRunner     BaseRunner.start with its callbacks and the pool       *)
(*   SpecReporter   CSVPerformanceReporter.reportResult                    *)
(*   SpecRequests     stopProcess and signalProcess requests that fail     *)
(*   SpecPlugins      BaseRunner.start with hooks and writers that raise   *)
(*   SpecPurge        BaseRunner.testComplete                              *)
(*   SpecSignal       ProcessUser.waitForSignal                            *)
(*   SpecDirs         the output directories of the cycles of a run        *)
(*   SpecRecord       reportResult and recordResult in worker threads      *)
(*   SpecAggregate    CSVPerformanceFile.aggregate                         *)
(*   SpecAggregateOne CSVPerformanceFile.aggregate of one file             *)
(*   SpecCsv          CSVPerformanceFile parsed and written again          *)
(*   SpecLoad         the load step of the containers on the workers       *)
(***************************************************************************)
EXTENDS Integers, Sequences, FiniteSets, TLC

VARIABLES
    \* ProcessUser: outcome list and reason (user.py 63-66)
    outcome,            \* self.outcome
    outcomeReason,      \* self.__outcomeReason
    defaultAbortOnError,\* self.defaultAbortOnError
    raised,             \* the exception that left the last call, or NoExc
    reasons,            \* history: reasons[i] is the reason passed with outcome[i]
    \* ProcessUser: unique stdout/stderr names (user.py 68, 102-118)
    uniqueProcessKeys,  \* self.__uniqueProcessKeys, a dict
    allocated,          \* the tuple the last allocateUniqueStdOutErr returned
    allocCalls,         \* history: the calls made so far, per key
    \* ProcessUser: processes and cleanup (user.py 59-61, 67)
    procs,              \* the ProcessWrapper objects created so far
    nextProc,           \* how many ProcessWrapper objects were created
    processList,        \* self.processList
    processCount,       \* self.processCount, a dict
    cleanupFunctions,   \* self.__cleanupFunctions
    defaultIgnoreExitStatus, \* self.defaultIgnoreExitStatus
    cleanupLog,         \* history: what the last cleanup() did, in order
    fnCalls,            \* history: how often each cleanup function was invoked
    registrations,      \* history: how often each function was put on the list
    timedOut,           \* history: the processes whose foreground run timed out
    lastOp,             \* history: the last call made on the actor
    \* TestContainer (baserunner.py 399-416) and the locals of __call__
    cpc,                \* the statement of __call__ that runs next
    descriptorState,    \* self.descriptor.state
    modeSupported,      \* not (runner.mode and runner.mode not in descriptor.modes)
    kbrdInt,            \* self.kbrdInt
    exc_info,           \* len(exc_info)
    testObj,            \* self.testObj: None, the test class or the BaseTest placeholder
    testFileHandler,    \* self.testFileHandler: None, open or closed
    runLogExists,       \* whether run.log was created in the output subdirectory
    phasesRun,          \* history: which of setup, execute, validate were invoked
    cleanupCalls,       \* history: how often testObj.cleanup() was invoked
    cresult,            \* how the call of the container ended
    events,             \* history: what happened at each stage of the call
    abortedWith,        \* history: the AbortExecution the test code raised
    listBeforeAbort,    \* history: the outcome list when the aborting call began
    coreFile,           \* whether a regular file named core* is in the output subdirectory
    \* BaseRunner (baserunner.py 93-116) and the locals of start
    rpc,                \* the statement of start that runs next
    threads,            \* self.threads
    numCycles,          \* self.cycle, the number of cycles to run
    cycle,              \* the loop variable cycle of start
    counter,            \* the submission counter of the dispatch loop
    resultsQueue,       \* self.resultsQueue
    resultsPointer,     \* self.resultsPointer
    results,            \* self.results
    duration,           \* self.duration
    requests,           \* ThreadPool: the work requests no worker has taken yet
    executing,          \* ThreadPool: the containers the workers are executing
    poolResults,        \* ThreadPool: the results not yet handed to a callback
    published,          \* history: the containers in the order they were published
    heldBack,           \* history: a container reached the callback ahead of the cursor
    record,             \* self.record
    hooks,              \* history: the hook and writer calls of the run, in order
    \* CSVPerformanceReporter (perfreporter.py 89-90) and the test objects that report
    previousResultKeys, \* self.__previousResultKeys, a dict
    perfTests,          \* the test objects created so far
    nextTest,           \* how many test objects were created
    rows,               \* the rows recordResult wrote to the summary file
    keyOwner,           \* history: the test object that reported each key first
    lastReport,         \* history: the last reportResult call
    \* BaseRunner.testComplete (baserunner.py 142-183)
    purge,              \* self.purge
    outdir,             \* the files of the output subdirectory, with their sizes
    lastPurge,          \* history: the testComplete call made
    \* ProcessUser.waitForSignal (user.py 401-484): the arguments and the locals
    sigpc,              \* where the call is: idle, loop, returned or aborted
    sigCondition,       \* condition
    sigTimeout,         \* timeout, in poll intervals
    sigAbortOnError,    \* abortOnError as passed
    sigFile,            \* the lines of the file that match expr, or Absent
    sigMatches,         \* len(matches)
    sigClock,           \* time.time() - startTime, in poll intervals
    sigExisted,         \* history: the file existed at some check of the call
    sigErrorExpr,       \* whether errorExpr was passed
    sigErrorLine,       \* whether a line of the file matches an errorExpr
    \* CSVPerformanceFile.aggregate (perfreporter.py 364-412)
    aggFiles,           \* files, the parsed files passed to aggregate
    aggregated,         \* the file aggregate returned
    aggDone,            \* whether aggregate has returned
    \* CSVPerformanceFile (perfreporter.py 263-350): a file that is parsed and written again
    csvpc,              \* idle, parsed or emitted
    csvInput,           \* contents: the header line and a row, as lists of fields
    csvParsed,          \* the CSVPerformanceFile object: runDetails and the parsed row
    csvOutput,          \* the header line and the row that toCSVLine returned
    \* CSVPerformanceReporter.recordResult (perfreporter.py 226-244) in the worker threads
    recpc,              \* per test object: the statement of reportResult its thread is at
    recLock,            \* self._lock: the test object whose thread holds it, or 0
    recKey,             \* per test object: the resultKey of the row being recorded
    alreadyexists,      \* per test object: the local alreadyexists of recordResult
    summaryExists,      \* os.path.exists(path) of the summary file
    summaryFile,        \* the lines of the summary file
    recAccepted,        \* history: the (test object, resultKey) pairs handed to recordResult
    \* TestContainer.__call__ (baserunner.py 425-437) over the cycles of a run
    dirRun,             \* self.runner.cycle, the number of cycles of the run
    dirCycle,           \* the loop variable cycle of start
    dirCounter,         \* the loop variable counter of start
    dirEnded,           \* the run has ended
    outputDirs,         \* per descriptor: its output subdirectory and the cycle directories
    dirLast,            \* history: the last container call
    \* TestContainer.__call__ (baserunner.py 453-465) on the workers of the pool
    global_lock,        \* global_lock: the worker that holds it, or 0
    loadpc,             \* per worker: where its container is in the load step
    loadRuns            \* per worker: the containers it has called

outcomeVars == <<outcome, outcomeReason, defaultAbortOnError, raised, reasons>>

allocVars == <<uniqueProcessKeys, allocated, allocCalls>>

processVars == <<procs, nextProc, processList, processCount, cleanupFunctions,
                 defaultIgnoreExitStatus, cleanupLog, fnCalls, registrations, timedOut,
                 lastOp>>

containerVars == <<cpc, descriptorState, modeSupported, kbrdInt, exc_info, testObj,
                   testFileHandler, runLogExists, phasesRun, cleanupCalls, cresult,
                   events, abortedWith, listBeforeAbort, coreFile>>

runnerVars == <<rpc, threads, numCycles, cycle, counter, resultsQueue, resultsPointer,
                results, duration, requests, executing, poolResults, published, heldBack,
                record, hooks>>

perfVars == <<previousResultKeys, perfTests, nextTest, rows, keyOwner, lastReport>>

\* the variables of the engine above the substrate
purgeVars == <<purge, outdir, lastPurge>>

signalVars == <<sigpc, sigCondition, sigTimeout, sigAbortOnError, sigFile, sigMatches,
                sigClock, sigExisted, sigErrorExpr, sigErrorLine>>

aggVars == <<aggFiles, aggregated, aggDone>>

\* the variables of the utilities of the engine
csvVars == <<csvpc, csvInput, csvParsed, csvOutput>>

recVars == <<recpc, recLock, recKey, alreadyexists, summaryExists, summaryFile, recAccepted>>

dirVars == <<dirRun, dirCycle, dirCounter, dirEnded, outputDirs, dirLast>>

loadVars == <<global_lock, loadpc, loadRuns>>

toolVars == <<purgeVars, signalVars, aggVars, csvVars, recVars, dirVars, loadVars>>

\* the utilities but one
exceptPurgeVars == <<signalVars, aggVars, csvVars, recVars, dirVars, loadVars>>

exceptSignalVars == <<purgeVars, aggVars, csvVars, recVars, dirVars, loadVars>>

exceptAggVars == <<purgeVars, signalVars, csvVars, recVars, dirVars, loadVars>>

exceptCsvVars == <<purgeVars, signalVars, aggVars, recVars, dirVars, loadVars>>

exceptRecVars == <<purgeVars, signalVars, aggVars, csvVars, dirVars, loadVars>>

exceptDirVars == <<purgeVars, signalVars, aggVars, csvVars, recVars, loadVars>>

exceptLoadVars == <<purgeVars, signalVars, aggVars, csvVars, recVars, dirVars>>

engineVars == <<containerVars, runnerVars, perfVars, toolVars>>

vars == <<outcomeVars, allocVars, processVars, engineVars>>

(***************************************************************************)
(* Bounds of the model.                                                    *)
(***************************************************************************)
MaxDescriptors == 2

MaxTests == 2

MaxReports == 3

MaxCycles == 2

MaxThreads == 2

MaxOutcomes == 3

MaxAlloc == 4

MaxProcs == 2

MaxRegistrations == 3

MaxFnCalls == 2

MaxSize == 1

MaxTimeout == 2

MaxMatches == 1

MaxFiles == 2

(***************************************************************************)
(* Outcomes (pysys.constants, listed in precedence order in the docstring  *)
(* of ProcessUser.addOutcome).                                             *)
(***************************************************************************)
SKIPPED == "SKIPPED"
BLOCKED == "BLOCKED"
DUMPEDCORE == "DUMPEDCORE"
TIMEDOUT == "TIMEDOUT"
FAILED == "FAILED"
NOTVERIFIED == "NOTVERIFIED"
INSPECT == "INSPECT"
PASSED == "PASSED"

PRECEDENT == <<SKIPPED, BLOCKED, DUMPEDCORE, TIMEDOUT, FAILED, NOTVERIFIED, INSPECT, PASSED>>

FAILS == {BLOCKED, DUMPEDCORE, TIMEDOUT, FAILED}

Outcomes == {PRECEDENT[i] : i \in DOMAIN PRECEDENT}

\* PRECEDENT.index(x)
indexOf == [x \in Outcomes |-> CHOOSE i \in DOMAIN PRECEDENT : PRECEDENT[i] = x]

index(x) == indexOf[x]

NoExc == [type |-> "none", outcome |-> "", value |-> ""]

\* raise AbortExecution(outcome, outcomeReason, callRecord)
abort(o, r) == [type |-> "AbortExecution", outcome |-> o, value |-> r]

\* the values of an abortOnError argument
None == "None"

AbortArgs == {None, "True", "False"}

\* reason strings a caller passes, and str.strip() on them
Reasons == {"", "r1 "}

strip(r) == CASE r = "r1 " -> "r1" [] r = "k " -> "k" [] OTHER -> r

\* process keys a test passes to allocateUniqueStdOutErr
Keys == {"key", "keyb", "other"}

\* self.output, and os.path.join as the pair of its components
output == "/testroot/Output/linux"

os_path_join(dir, name) == <<dir, name>>

basename(path) == path[Len(path)]

\* nothing allocated yet
NoAlloc == [key |-> "", stdout |-> <<>>, stderr |-> <<>>]

\* dict.get(key, default)
dict_get(d, key, default) == IF key \in DOMAIN d THEN d[key] ELSE default

\* d[key] = value
dict_set(d, key, value) ==
    [k \in DOMAIN d \cup {key} |-> IF k = key THEN value ELSE d[k]]

(***************************************************************************)
(* Processes: the handles startProcess creates (ProcessWrapper objects),   *)
(* the display names and the cleanup callables a test registers.           *)
(***************************************************************************)
FOREGROUND == "FOREGROUND"
BACKGROUND == "BACKGROUND"

ProcIds == 1..MaxProcs

Names == {"procA", "procB"}

Fns == {"f1", "f2"}

NoProc == [running |-> FALSE, exitStatus |-> -1, state |-> ""]

NoOp == [op |-> "", proc |-> 0, env |-> "", listed |-> {}]

Range(s) == {s[i] : i \in DOMAIN s}

\* the names of the files a test leaves in its output subdirectory
FileNames == {"run.log", "run_log.bak", "out.txt"}

\* re.search('run.log', file): the names with run, any one character and log in them
re_search_run_log(file) == file \in {"run.log", "run_log.bak"}

\* what the operating system does with a process that is started
StartEnvs(state) ==
    IF state = FOREGROUND THEN {"exit0", "exit1", "timeout", "error"}
    ELSE {"spawned", "error"}

\* ProcessWrapper.start: FOREGROUND blocks until termination or timeout, and on
\* timeout the supervisor hard-terminates the child, then raises ProcessTimeout;
\* BACKGROUND returns as soon as the child is spawned
ProcessWrapper_start(state, env) ==
    CASE env = "error"   -> [running |-> FALSE, exitStatus |-> -1, exc |-> "ProcessError"]
      [] env = "timeout" -> [running |-> FALSE, exitStatus |-> -1, exc |-> "ProcessTimeout"]
      [] env = "exit0"   -> [running |-> FALSE, exitStatus |-> 0, exc |-> "none"]
      [] env = "exit1"   -> [running |-> FALSE, exitStatus |-> 1, exc |-> "none"]
      [] env = "spawned" -> [running |-> TRUE, exitStatus |-> -1, exc |-> "none"]

\* ProcessWrapper.stop: idempotent; a stop request that fails raises ProcessError
ProcessWrapper_stop(running, fails) ==
    IF ~running THEN [running |-> FALSE, exc |-> "none"]
    ELSE IF fails THEN [running |-> TRUE, exc |-> "ProcessError"]
    ELSE [running |-> FALSE, exc |-> "none"]

\* ProcessWrapper.wait(timeout)
ProcessWrapper_wait(running, env) ==
    IF ~running THEN [running |-> FALSE, exc |-> "none"]
    ELSE IF env = "timeout" THEN [running |-> TRUE, exc |-> "ProcessTimeout"]
    ELSE [running |-> FALSE, exc |-> "none"]

\* an exception other than AbortExecution leaving a call
exception(type) == [type |-> type, outcome |-> "", value |-> ""]

\* no reportResult call was made yet
NoReport == [n |-> 0, obj |-> 0, resultKey |-> "", repeated |-> FALSE, conflicts |-> FALSE,
             otherCycle |-> FALSE, failed |-> FALSE, blocked |-> FALSE, wrote |-> FALSE]

\* descriptor.state: only 'runnable' descriptors are executed
DescriptorStates == {"runnable", "skipped"}

\* the stages of a container call at which the environment or the test acts
Stages == {"outsubdir", "import", "setup", "execute", "validate", "detectCore", "cleanup"}

(***************************************************************************)
(* sorted(list, key=lambda x: PRECEDENT.index(x)): a stable insertion sort *)
(***************************************************************************)
RECURSIVE insertByKey(_, _)
insertByKey(s, x) ==
    IF s = <<>> THEN <<x>>
    ELSE IF index(x) < index(Head(s)) THEN <<x>> \o s
    ELSE <<Head(s)>> \o insertByKey(Tail(s), x)

RECURSIVE sorted(_)
sorted(s) ==
    IF s = <<>> THEN <<>>
    ELSE insertByKey(sorted(SubSeq(s, 1, Len(s) - 1)), s[Len(s)])

getOutcome_last(list) ==
    IF Len(list) = 0 THEN NOTVERIFIED ELSE list[Len(list)]

\* ProcessUser.getOutcome
getOutcome(list) ==
    IF Len(list) = 0 THEN NOTVERIFIED ELSE sorted(list)[1]

\* addOutcome raising before it appends
addOutcome_abortsFirst(list, reason, dflt, o, r, abortOnError) ==
    LET aoe == IF abortOnError = None THEN dflt ELSE abortOnError = "True"
        outcomeReasonArg == IF r # "" THEN strip(r) ELSE ""
        old == getOutcome(list)
        appended == Append(list, o)
        newReason == IF getOutcome(appended) # old THEN outcomeReasonArg ELSE reason
    IN  IF o \in FAILS /\ aoe
        THEN [outcome |-> list, outcomeReason |-> reason, raised |-> abort(o, outcomeReasonArg)]
        ELSE [outcome |-> appended, outcomeReason |-> newReason, raised |-> NoExc]

\* ProcessUser.addOutcome: the fields after the call and the exception it raises
addOutcome(list, reason, dflt, o, r, abortOnError) ==
    LET aoe == IF abortOnError = None THEN dflt ELSE abortOnError = "True"
        outcomeReasonArg == IF r # "" THEN strip(r) ELSE ""
        old == getOutcome(list)
        appended == Append(list, o)
        newReason == IF getOutcome(appended) # old THEN outcomeReasonArg ELSE reason
    IN  [outcome |-> appended,
         outcomeReason |-> newReason,
         raised |-> IF o \in FAILS /\ aoe THEN abort(o, outcomeReasonArg) ELSE NoExc]

(***************************************************************************)
(* SpecOutcome: any sequence of addOutcome calls on one actor.             *)
(***************************************************************************)
\* ProcessUser.__init__: the outcome fields
InitOutcomeVars ==
    /\ outcome = <<>>
    /\ outcomeReason = ""
    /\ defaultAbortOnError \in BOOLEAN
    /\ raised = NoExc
    /\ reasons = <<>>

\* ProcessUser.__init__: the unique-name counters
InitAllocVars ==
    /\ uniqueProcessKeys = [k \in {} |-> 0]
    /\ allocated = NoAlloc
    /\ allocCalls = [k \in Keys |-> 0]

\* ProcessUser.__init__: the process list, the counters and the cleanup stack
InitProcessVars ==
    /\ procs = [p \in ProcIds |-> NoProc]
    /\ nextProc = 0
    /\ processList = <<>>
    /\ processCount = [k \in {} |-> 0]
    /\ cleanupFunctions = <<>>
    /\ defaultIgnoreExitStatus \in BOOLEAN
    /\ cleanupLog = <<>>
    /\ fnCalls = [f \in Fns |-> 0]
    /\ registrations = [f \in Fns |-> 0]
    /\ timedOut = {}
    /\ lastOp = NoOp

\* TestContainer.__init__, before the container is called
InitContainerVars ==
    /\ cpc = "outsubdir"
    /\ descriptorState \in DescriptorStates
    /\ modeSupported \in BOOLEAN
    /\ kbrdInt = FALSE
    /\ exc_info = 0
    /\ testObj = None
    /\ testFileHandler = None
    /\ runLogExists = FALSE
    /\ phasesRun = {}
    /\ cleanupCalls = 0
    /\ cresult = "running"
    /\ events = [s \in Stages |-> ""]
    /\ abortedWith = NoExc
    /\ listBeforeAbort = <<>>
    /\ coreFile = FALSE

\* a container of a runnable descriptor that is not called
IdleContainerVars ==
    /\ InitContainerVars
    /\ descriptorState = "runnable"
    /\ modeSupported = TRUE

\* BaseRunner.__init__
InitRunnerVars ==
    /\ rpc = "setup"
    /\ threads \in 1..MaxThreads
    /\ numCycles \in 1..MaxCycles
    /\ cycle = 0
    /\ counter = 0
    /\ resultsQueue = <<>>
    /\ resultsPointer = 0
    /\ results = <<>>
    /\ duration = 0
    /\ requests = <<>>
    /\ executing = {}
    /\ poolResults = <<>>
    /\ published = <<>>
    /\ heldBack = FALSE
    /\ record \in BOOLEAN
    /\ hooks = <<>>

\* a runner that is not started
IdleRunnerVars ==
    /\ InitRunnerVars
    /\ threads = 1
    /\ numCycles = 1
    /\ record = FALSE

\* CSVPerformanceReporter.__init__, before any test object exists
InitPerfVars ==
    /\ previousResultKeys = [k \in {} |-> 0]
    /\ perfTests = <<>>
    /\ nextTest = 0
    /\ rows = <<>>
    /\ keyOwner = [k \in {} |-> 0]
    /\ lastReport = NoReport

\* the output subdirectory before a test has written to it
NoPurge == [done |-> FALSE, stuck |-> {}]

InitPurgeVars ==
    /\ purge \in BOOLEAN
    /\ outdir \in UNION {[D -> 0..MaxSize] : D \in SUBSET FileNames}
    /\ lastPurge = NoPurge

\* a file that does not exist
Absent == -1

\* the condition arguments of waitForSignal
Conditions == {"==0", ">=1"}

\* waitForSignal 441-443: a call has been made, matches = [] and the clock started
InitSignalVars ==
    /\ sigpc = "loop"
    /\ sigCondition \in Conditions
    /\ sigTimeout \in 0..MaxTimeout
    /\ sigAbortOnError \in AbortArgs
    /\ sigFile \in {Absent} \cup 0..MaxMatches
    /\ sigMatches = 0
    /\ sigClock = 0
    /\ sigExisted = FALSE
    /\ sigErrorExpr \in BOOLEAN
    /\ sigErrorLine \in {e \in BOOLEAN : e => sigFile # Absent}

IdleSignalVars ==
    /\ sigpc = "idle"
    /\ sigCondition = ">=1"
    /\ sigTimeout = 0
    /\ sigAbortOnError = None
    /\ sigFile = Absent
    /\ sigMatches = 0
    /\ sigClock = 0
    /\ sigExisted = FALSE
    /\ sigErrorExpr = FALSE
    /\ sigErrorLine = FALSE

IdlePurgeVars ==
    /\ purge = FALSE
    /\ outdir = [f \in {} |-> 0]
    /\ lastPurge = NoPurge

\* a rational number n/d in lowest terms, d > 0
RECURSIVE gcd(_, _)
gcd(a, b) == IF b = 0 THEN a ELSE gcd(b, a % b)

abs(a) == IF a < 0 THEN 0 - a ELSE a

Q(n, d) ==
    LET g == gcd(abs(n), abs(d))
        sgn == IF d < 0 THEN 0 - 1 ELSE 1
    IN  [n |-> (sgn * n) \div g, d |-> (sgn * d) \div g]

qint(i) == [n |-> i, d |-> 1]

qadd(x, y) == Q(x.n * y.d + y.n * x.d, x.d * y.d)

qsub(x, y) == Q(x.n * y.d - y.n * x.d, x.d * y.d)

qmul(x, y) == Q(x.n * y.n, x.d * y.d)

qdiv(x, y) == Q(x.n * y.d, x.d * y.n)

\* the resultKeys of the rows, in sorted order
SortedKeys == <<"j", "k">>

\* the values of a run detail, in sorted order
SortedDetailValues == <<"linux", "win">>

\* a result row of a parsed file; stdDev2 is the square of the stdDev column
PerfRow(resultKey, value, samples, stdDev2, resultDetails) ==
    [resultKey |-> resultKey, value |-> qint(value), samples |-> samples,
     stdDev2 |-> qint(stdDev2), resultDetails |-> resultDetails]

\* the resultDetails of the rows, ordered dicts
PerfDetails == {<<>>, << <<"mode", "fast">> >>}

\* rows as reportResult writes them: one sample, stdDev 0
ReportedRows ==
    {PerfRow(k, v, 1, 0, d) : k \in Range(SortedKeys), v \in {10, 20}, d \in {<<>>}}
    \cup {PerfRow("k", 10, 1, 0, << <<"mode", "fast">> >>)}

\* rows of a file that aggregate has written: the mean of 10 and 20, or of v and v
AggregatedRows ==
    {PerfRow(k, 15, 2, 50, <<>>) : k \in Range(SortedKeys)}
    \cup {PerfRow(k, v, 2, 0, <<>>) : k \in Range(SortedKeys), v \in {10}}

\* the runDetails of the files, ordered dicts whose values are lists of words
PerfRunDetails ==
    {<<>>} \cup {<< <<"outDir", <<v>> >> >> : v \in Range(SortedDetailValues)}

\* CSVPerformanceFile objects: no row, one row, or two rows as reportResult wrote them
PerfFile(runDetails, rs) == [runDetails |-> runDetails, results |-> rs]

PerfResults ==
    {<<>>} \cup {<<r>> : r \in ReportedRows \cup AggregatedRows}
    \cup {<<r1, r2>> : r1 \in ReportedRows, r2 \in ReportedRows}

RECURSIVE SeqsUpTo(_, _)
SeqsUpTo(S, n) ==
    IF n = 0 THEN {<<>>}
    ELSE LET shorter == SeqsUpTo(S, n - 1)
         IN  shorter \cup {Append(q, x) : q \in shorter, x \in S}

\* aggregate has not been called
IdleAggVars ==
    /\ aggFiles = <<>>
    /\ aggregated = PerfFile(<<>>, <<>>)
    /\ aggDone = FALSE

\* a field of a CSV line: the text 'k=v', or the text v when k is empty
Field(k, v) == [k |-> k, v |-> v]

\* no file has been parsed
NoCsv == [header |-> <<>>, row |-> <<>>]

NoCsvFile == [runDetails |-> <<>>, result |-> <<>>]

IdleCsvVars ==
    /\ csvpc = "idle"
    /\ csvInput = NoCsv
    /\ csvParsed = NoCsvFile
    /\ csvOutput = NoCsv

\* no thread is in reportResult and the summary file does not exist
IdleRecVars ==
    /\ recpc = [t \in 1..MaxTests |-> "idle"]
    /\ recLock = 0
    /\ recKey = [t \in 1..MaxTests |-> ""]
    /\ alreadyexists = [t \in 1..MaxTests |-> FALSE]
    /\ summaryExists = FALSE
    /\ summaryFile = <<>>
    /\ recAccepted = <<>>

\* no container has been called
NoCall ==
    [descriptor |-> 0, cycle |-> 0, outsubdir |-> 0, interrupted |-> FALSE,
     blocked |-> FALSE, purgedOwn |-> FALSE]

\* the states of a cycle directory: left by an earlier run, made by a container of this
\* run, written to by a test of this run
DirStates == {"absent", "stale", "made", "used"}

NoDirs == [top |-> FALSE, cycles |-> [n \in 1..MaxCycles |-> "absent"]]

IdleDirVars ==
    /\ dirRun = 1
    /\ dirCycle = 0
    /\ dirCounter = 0
    /\ dirEnded = FALSE
    /\ outputDirs = [d \in 1..MaxDescriptors |-> NoDirs]
    /\ dirLast = NoCall

\* no worker has called a container
IdleLoadVars ==
    /\ global_lock = 0
    /\ loadpc = [t \in 1..MaxThreads |-> "idle"]
    /\ loadRuns = [t \in 1..MaxThreads |-> 0]

\* utilities that are not used
IdleToolVars ==
    /\ IdlePurgeVars
    /\ IdleSignalVars
    /\ IdleAggVars
    /\ IdleCsvVars
    /\ IdleRecVars
    /\ IdleDirVars
    /\ IdleLoadVars

InitOutcome ==
    /\ InitOutcomeVars
    /\ InitAllocVars
    /\ InitProcessVars
    /\ IdleContainerVars
    /\ IdleRunnerVars
    /\ InitPerfVars
    /\ IdleToolVars

AddOutcome(o, r, abortOnError) ==
    /\ Len(outcome) < MaxOutcomes
    /\ LET res == addOutcome(outcome, outcomeReason, defaultAbortOnError, o, r, abortOnError)
       IN  /\ outcome' = res.outcome
           /\ outcomeReason' = res.outcomeReason
           /\ raised' = res.raised
    /\ reasons' = Append(reasons, strip(r))
    /\ UNCHANGED <<defaultAbortOnError, allocVars, engineVars, processVars>>

NextOutcome ==
    \E o \in Outcomes, r \in Reasons, a \in AbortArgs : AddOutcome(o, r, a)

SpecOutcome == InitOutcome /\ [][NextOutcome]_vars

(***************************************************************************)
(* C2: after any sequence of addOutcome calls, getOutcome() is the         *)
(* recorded outcome that comes first in the precedence order, and          *)
(* NOTVERIFIED when nothing has been recorded.                             *)
(***************************************************************************)
C2_GetOutcomeIsFirstInPrecedence ==
    LET g == getOutcome(outcome)
    IN  /\ outcome = <<>> => g = NOTVERIFIED
        /\ outcome # <<>> =>
              /\ \E i \in DOMAIN outcome : outcome[i] = g
              /\ \A i \in DOMAIN outcome :
                    \A k \in DOMAIN PRECEDENT :
                        PRECEDENT[k] = outcome[i] =>
                            \E j \in 1..k : PRECEDENT[j] = g

\* a PASSED recorded before a FAILED and a BLOCKED: the overall outcome is BLOCKED
C2_Witness ==
    /\ Len(outcome) = 3
    /\ outcome[1] = PASSED /\ outcome[2] = BLOCKED /\ outcome[3] = FAILED
    /\ getOutcome(outcome) = BLOCKED

(***************************************************************************)
(* C3: getOutcomeReason() is the reason passed with the call that first    *)
(* established the current overall outcome.                                *)
(***************************************************************************)
firstIndexOf(list, o) ==
    CHOOSE i \in DOMAIN list : list[i] = o /\ \A j \in 1..(i - 1) : list[j] # o

C3_ReasonOfEstablishingCall ==
    outcome # <<>> =>
        outcomeReason = reasons[firstIndexOf(outcome, getOutcome(outcome))]

(***************************************************************************)
(* C34: addOutcome with a failure outcome and abortOnError in effect (the  *)
(* argument, or defaultAbortOnError when it is None) appends the outcome,  *)
(* stores the reason when the overall outcome changed, and then raises an  *)
(* abort that carries this outcome and this reason; with another outcome,  *)
(* or abortOnError not in effect, it appends and raises nothing.           *)
(***************************************************************************)
C34_AppendsThenAbortsOnFailure ==
    [][\A o \in Outcomes, r \in Reasons, a \in AbortArgs :
          AddOutcome(o, r, a) =>
              LET inEffect == IF a = None THEN defaultAbortOnError ELSE a = "True"
                  changed == getOutcome(outcome') # getOutcome(outcome)
              IN  /\ outcome' = Append(outcome, o)
                  /\ outcomeReason' = IF changed THEN strip(r) ELSE outcomeReason
                  /\ raised' = IF o \in FAILS /\ inEffect
                                THEN [type |-> "AbortExecution", outcome |-> o, value |-> strip(r)]
                                ELSE NoExc]_vars

\* a failure outcome with a reason was appended after another outcome, became the
\* overall outcome and was raised as an abort
C34_Witness ==
    /\ Len(outcome) >= 2
    /\ raised.type = "AbortExecution"
    /\ raised.outcome = outcome[Len(outcome)]
    /\ raised.outcome = getOutcome(outcome)
    /\ raised.value = "r1" /\ outcomeReason = "r1"
    /\ outcome[1] = PASSED

(***************************************************************************)
(* ProcessUser.allocateUniqueStdOutErr: the dict after the call and the    *)
(* named tuple returned.                                                   *)
(***************************************************************************)
allocateUniqueStdOutErr(keys, processKey) ==
    LET newval == dict_get(keys, processKey, -1) + 1
        suffix == IF newval > 0 THEN "." \o ToString(newval) ELSE ""
    IN  [uniqueProcessKeys |-> dict_set(keys, processKey, newval),
         stdout |-> os_path_join(output, processKey \o suffix \o ".out"),
         stderr |-> os_path_join(output, processKey \o suffix \o ".err")]

(***************************************************************************)
(* SpecAlloc: any sequence of allocateUniqueStdOutErr calls on one actor.  *)
(***************************************************************************)
InitAlloc ==
    /\ InitOutcomeVars
    /\ InitAllocVars
    /\ InitProcessVars
    /\ IdleContainerVars
    /\ IdleRunnerVars
    /\ InitPerfVars
    /\ IdleToolVars

AllocateUniqueStdOutErr(processKey) ==
    /\ allocCalls[processKey] < MaxAlloc
    /\ LET res == allocateUniqueStdOutErr(uniqueProcessKeys, processKey)
       IN  /\ uniqueProcessKeys' = res.uniqueProcessKeys
           /\ allocated' = [key |-> processKey, stdout |-> res.stdout, stderr |-> res.stderr]
    /\ allocCalls' = [allocCalls EXCEPT ![processKey] = @ + 1]
    /\ UNCHANGED <<outcomeVars, processVars, engineVars>>

NextAlloc ==
    \E k \in Keys : AllocateUniqueStdOutErr(k)

SpecAlloc == InitAlloc /\ [][NextAlloc]_vars

(***************************************************************************)
(* C4: the n-th call with one key returns key.out / key.err for n = 1 and  *)
(* key.<n>.out / key.<n>.err for n >= 2, whatever calls were made with     *)
(* other keys.                                                             *)
(***************************************************************************)
expectedSuffix(n) == IF n = 1 THEN "" ELSE "." \o ToString(n)

C4_NthCallUsesSuffixN ==
    allocated # NoAlloc =>
        LET n == allocCalls[allocated.key]
        IN  /\ basename(allocated.stdout) = allocated.key \o expectedSuffix(n) \o ".out"
            /\ basename(allocated.stderr) = allocated.key \o expectedSuffix(n) \o ".err"

(***************************************************************************)
(* ProcessUser.startProcess, stopProcess, waitProcess, addCleanupFunction  *)
(* and cleanup.                                                            *)
(***************************************************************************)
noAdd(list, reason) == [outcome |-> list, outcomeReason |-> reason, raised |-> NoExc]

\* ProcessUser.getInstanceCount
getInstanceCount(count, displayName) == IF displayName \in DOMAIN count THEN count[displayName] ELSE 0

\* startProcess blocking on every non-zero exit status
startProcess_onExit_notIgnored(list, reason, dflt, exitStatus, ignoreExitStatus, abortOnError) ==
    IF exitStatus # 0
    THEN addOutcome(list, reason, dflt, BLOCKED, "returned non-zero exit code", abortOnError)
    ELSE noAdd(list, reason)

\* startProcess 169-170: a foreground process that terminated
startProcess_onExit(list, reason, dflt, exitStatus, ignoreExitStatus, abortOnError) ==
    IF ~ignoreExitStatus /\ exitStatus # 0
    THEN addOutcome(list, reason, dflt, BLOCKED, "returned non-zero exit code", abortOnError)
    ELSE noAdd(list, reason)

startProcess_onTimeout_noOutcome(list, reason, dflt, abortOnError) ==
    noAdd(list, reason)

\* startProcess 176-177: except ProcessTimeout
startProcess_onTimeout(list, reason, dflt, abortOnError) ==
    addOutcome(list, reason, dflt, TIMEDOUT, "timed out", abortOnError)

\* the reason history after a call that may have appended an outcome
reasonsAfter(res) ==
    IF Len(res.outcome) > Len(outcome)
    THEN Append(reasons, IF res.outcome[Len(res.outcome)] = TIMEDOUT
                         THEN "timed out" ELSE "returned non-zero exit code")
    ELSE reasons

StartProcess(state, env, displayName, abortOnError, ignoreExitStatus) ==
    /\ nextProc < MaxProcs
    /\ env \in StartEnvs(state)
    /\ LET p == nextProc + 1
           ign == IF ignoreExitStatus = None THEN defaultIgnoreExitStatus
                  ELSE ignoreExitStatus = "True"
           w == ProcessWrapper_start(state, env)
           add == IF w.exc = "ProcessTimeout"
                  THEN startProcess_onTimeout(outcome, outcomeReason, defaultAbortOnError,
                                              abortOnError)
                  ELSE IF w.exc = "none" /\ state = FOREGROUND
                  THEN startProcess_onExit(outcome, outcomeReason, defaultAbortOnError,
                                           w.exitStatus, ign, abortOnError)
                  ELSE noAdd(outcome, outcomeReason)
           \* 179: process.stop(), reached when addOutcome(TIMEDOUT) did not abort;
           \* the child is terminated already, so the request cannot fail
           stopped == IF w.exc = "ProcessTimeout" /\ add.raised = NoExc
                      THEN ProcessWrapper_stop(w.running, FALSE)
                      ELSE [running |-> w.running, exc |-> "none"]
           \* 180-188: the else clause of the try
           inElse == w.exc = "none" /\ add.raised = NoExc
       IN  /\ outcome' = add.outcome
           /\ outcomeReason' = add.outcomeReason
           /\ reasons' = reasonsAfter(add)
           /\ raised' = IF add.raised # NoExc THEN add.raised
                         ELSE IF stopped.exc # "none" THEN exception(stopped.exc)
                         ELSE NoExc
           /\ procs' = [procs EXCEPT ![p] = [running |-> stopped.running,
                                              exitStatus |-> w.exitStatus,
                                              state |-> state]]
           /\ nextProc' = p
           /\ processList' = IF inElse THEN Append(processList, p) ELSE processList
           /\ processCount' =
                 IF ~inElse THEN processCount
                 ELSE IF displayName \in DOMAIN processCount
                 THEN dict_set(processCount, displayName, processCount[displayName] + 1)
                 ELSE dict_set(processCount, displayName, 1)
           /\ timedOut' = IF w.exc = "ProcessTimeout" THEN timedOut \cup {p} ELSE timedOut
           /\ lastOp' = [op |-> "startProcess", proc |-> p, env |-> env, listed |-> {}]
    /\ UNCHANGED <<defaultAbortOnError, allocVars, engineVars, cleanupFunctions,
                   defaultIgnoreExitStatus, cleanupLog, fnCalls, registrations>>

\* ProcessUser.stopProcess
StopProcess(p, abortOnError, fails) ==
    /\ p \in 1..nextProc
    /\ LET aoe == IF abortOnError = None THEN defaultAbortOnError ELSE abortOnError = "True"
           st == ProcessWrapper_stop(procs[p].running, fails)
       IN  /\ procs' = [procs EXCEPT ![p].running = st.running]
           /\ raised' = IF st.exc = "ProcessError" /\ aoe
                         THEN abort(BLOCKED, "Unable to stop process")
                         ELSE NoExc
           /\ lastOp' = [op |-> "stopProcess", proc |-> p,
                          env |-> IF st.exc = "ProcessError" THEN "error" ELSE "",
                          listed |-> {}]
    /\ UNCHANGED <<outcome, outcomeReason, defaultAbortOnError, reasons, allocVars, engineVars,
                   nextProc, processList, processCount, cleanupFunctions,
                   defaultIgnoreExitStatus, cleanupLog, fnCalls, registrations, timedOut>>

\* waitProcess 260-264: except ProcessTimeout
waitProcess_onTimeout(dflt, abortOnError) ==
    LET aoe == IF abortOnError = None THEN dflt ELSE abortOnError = "True"
    IN  IF aoe THEN abort(TIMEDOUT, "Timed out waiting for process") ELSE NoExc

\* ProcessUser.waitProcess
WaitProcess(p, env, abortOnError) ==
    /\ p \in 1..nextProc
    /\ LET w == ProcessWrapper_wait(procs[p].running, env)
       IN  /\ procs' = [procs EXCEPT ![p].running = w.running]
           /\ raised' = IF w.exc = "ProcessTimeout"
                         THEN waitProcess_onTimeout(defaultAbortOnError, abortOnError)
                         ELSE NoExc
           /\ lastOp' = [op |-> "waitProcess", proc |-> p,
                          env |-> IF w.exc = "ProcessTimeout" THEN "timeout" ELSE "",
                          listed |-> {}]
    /\ UNCHANGED <<outcome, outcomeReason, defaultAbortOnError, reasons, allocVars, engineVars,
                   nextProc, processList, processCount, cleanupFunctions,
                   defaultIgnoreExitStatus, cleanupLog, fnCalls, registrations, timedOut>>

\* a background process terminates of its own accord
ProcessExits(p) ==
    /\ p \in 1..nextProc
    /\ procs[p].running
    /\ procs' = [procs EXCEPT ![p].running = FALSE]
    /\ UNCHANGED <<outcomeVars, allocVars, engineVars, nextProc, processList, processCount,
                   cleanupFunctions, defaultIgnoreExitStatus, cleanupLog, fnCalls,
                   registrations, timedOut, lastOp>>

\* how many functions were put on the list so far
RECURSIVE registered(_)
registered(fs) ==
    IF fs = {} THEN 0
    ELSE LET f == CHOOSE g \in fs : TRUE IN registrations[f] + registered(fs \ {f})

\* ProcessUser.addCleanupFunction
AddCleanupFunction(fn) ==
    /\ registered(Fns) < MaxRegistrations
    /\ IF fn # None /\ fn \notin Range(cleanupFunctions)
       THEN /\ cleanupFunctions' = Append(cleanupFunctions, fn)
            /\ registrations' = [registrations EXCEPT ![fn] = @ + 1]
       ELSE UNCHANGED <<cleanupFunctions, registrations>>
    /\ raised' = NoExc
    /\ lastOp' = [op |-> "addCleanupFunction", proc |-> 0, env |-> "", listed |-> {}]
    /\ UNCHANGED <<outcome, outcomeReason, defaultAbortOnError, reasons, allocVars, engineVars,
                   procs, nextProc, processList, processCount, defaultIgnoreExitStatus,
                   cleanupLog, fnCalls, timedOut>>

\* the functions in the order of their registration
reversed_forward(list) == list

\* reversed(list)
reversed(list) == [i \in 1..Len(list) |-> list[Len(list) - i + 1]]

\* the place a function has on the list, 1 for the function registered first
registeredAt(list, fn) == CHOOSE j \in 1..Len(list) : list[j] = fn

\* cleanup 519-523: the processes of the list that get a stop request
cleanup_toStop(list, ps) == SelectSeq(list, LAMBDA p : ps[p].running)

\* cleanup without the handler of 515: the first Exception ends the loop
cleanup_invoked_unguarded(rev, raisers, interrupt) ==
    LET first == {k \in 1..Len(rev) : rev[k] \in raisers /\ \A j \in 1..(k - 1) : rev[j] \notin raisers}
    IN  IF first = {} THEN (IF interrupt = 0 THEN rev ELSE SubSeq(rev, 1, interrupt))
        ELSE SubSeq(rev, 1, CHOOSE k \in first : TRUE)

\* cleanup 511-516: the functions invoked, in calling order; an Exception of a function
\* is caught and logged (515-516), a keyboard interrupt ends the loop
cleanup_invoked(rev, raisers, interrupt) ==
    IF interrupt = 0 THEN rev ELSE SubSeq(rev, 1, interrupt)

\* ProcessUser.cleanup. raisers: the registered functions that raise an Exception;
\* interrupt: the place (in calling order) of a function that is interrupted from
\* the keyboard, 0 for none; stopFails: the processes whose stop request fails
Cleanup(raisers, interrupt, stopFails) ==
    /\ interrupt \in 0..Len(cleanupFunctions)
    /\ LET rev == reversed(cleanupFunctions)
           invoked == cleanup_invoked(rev, raisers, interrupt)
           toStop == cleanup_toStop(processList, procs)
       IN  /\ raisers \subseteq Range(invoked)
           /\ interrupt # 0 => invoked[interrupt] \notin raisers
           /\ stopFails \subseteq Range(toStop)
           /\ \A f \in Range(invoked) : fnCalls[f] < MaxFnCalls
           /\ cleanupLog' =
                 [i \in 1..Len(invoked) |->
                     [kind |-> "fn", fn |-> invoked[i], proc |-> 0,
                      pos |-> registeredAt(cleanupFunctions, invoked[i]),
                      failed |-> invoked[i] \in raisers \/ i = interrupt]]
                 \o [i \in 1..Len(toStop) |->
                     [kind |-> "stop", fn |-> "", proc |-> toStop[i], pos |-> 0,
                      failed |-> toStop[i] \in stopFails]]
           /\ fnCalls' = [f \in Fns |-> IF f \in Range(invoked) THEN fnCalls[f] + 1
                                         ELSE fnCalls[f]]
           \* 517 is skipped when a function is interrupted
           /\ cleanupFunctions' = IF interrupt = 0 THEN <<>> ELSE cleanupFunctions
           /\ procs' = [p \in ProcIds |->
                          IF p \in Range(toStop)
                          THEN [procs[p] EXCEPT !.running =
                                    ProcessWrapper_stop(procs[p].running,
                                                        p \in stopFails).running]
                          ELSE procs[p]]
           /\ raised' = IF interrupt = 0 THEN NoExc ELSE exception("KeyboardInterrupt")
           /\ lastOp' = [op |-> "cleanup", proc |-> 0, env |-> "",
                          listed |-> Range(processList)]
    /\ processList' = <<>>
    /\ processCount' = [k \in {} |-> 0]
    /\ UNCHANGED <<outcome, outcomeReason, defaultAbortOnError, reasons, allocVars, engineVars,
                   nextProc, defaultIgnoreExitStatus, registrations, timedOut>>

(***************************************************************************)
(* SpecProcess: one actor starting, stopping and waiting for processes,    *)
(* registering cleanup functions and cleaning up.                          *)
(***************************************************************************)
InitProcess ==
    /\ InitOutcomeVars
    /\ InitAllocVars
    /\ InitProcessVars
    /\ IdleContainerVars
    /\ IdleRunnerVars
    /\ InitPerfVars
    /\ IdleToolVars
    \* a project that sets neither default (user.py 66-67)
    /\ defaultAbortOnError = FALSE
    /\ defaultIgnoreExitStatus = TRUE

NextProcess ==
    \/ \E state \in {FOREGROUND, BACKGROUND} :
          \E env \in StartEnvs(state), n \in Names, a \in AbortArgs, ign \in AbortArgs :
            StartProcess(state, env, n, a, ign)
    \/ \E p \in ProcIds, a \in AbortArgs, fails \in BOOLEAN : StopProcess(p, a, fails)
    \/ \E p \in ProcIds, env \in {"exits", "timeout"}, a \in AbortArgs : WaitProcess(p, env, a)
    \/ \E p \in ProcIds : ProcessExits(p)
    \/ \E raisers \in SUBSET Fns, i \in 0..Cardinality(Fns), stopFails \in SUBSET ProcIds :
            Cleanup(raisers, i, stopFails)

SpecProcess == InitProcess /\ [][NextProcess]_vars

(***************************************************************************)
(* SpecCleanup: one actor registering cleanup functions, starting          *)
(* background processes and cleaning up, any number of times.              *)
(***************************************************************************)
NextCleanup ==
    \/ \E fn \in Fns \cup {None} : AddCleanupFunction(fn)
    \/ \E env \in StartEnvs(BACKGROUND) : StartProcess(BACKGROUND, env, "procA", None, None)
    \/ \E p \in ProcIds : ProcessExits(p)
    \/ \E raisers \in SUBSET Fns, i \in 0..Cardinality(Fns) : Cleanup(raisers, i, {})

SpecCleanup == InitProcess /\ [][NextCleanup]_vars

(***************************************************************************)
(* C5: after cleanup() returns, no process that was in the actor's process *)
(* list is running, and the process list is empty.                         *)
(***************************************************************************)
C5_NoListedProcessRunsAfterCleanup ==
    (lastOp.op = "cleanup" /\ raised = NoExc) =>
        /\ \A p \in lastOp.listed : ~procs[p].running
        /\ processList = <<>>

(***************************************************************************)
(* C35: startProcess of a FOREGROUND process that terminates within its    *)
(* timeout appends BLOCKED exactly when the exit status is not zero and    *)
(* ignoreExitStatus (the argument, or defaultIgnoreExitStatus when it is   *)
(* None) is false, and appends nothing otherwise; and every process        *)
(* started without timeout, spawn error or abort is appended once to the   *)
(* process list and adds one to getInstanceCount of its displayName.       *)
(***************************************************************************)
C35_ExitStatusAndBookkeeping ==
    [][\A state \in {FOREGROUND, BACKGROUND} :
          \A env \in StartEnvs(state), n \in Names, a \in AbortArgs, ign \in AbortArgs :
             StartProcess(state, env, n, a, ign) =>
                 LET ignoring == IF ign = None THEN defaultIgnoreExitStatus ELSE ign = "True"
                     terminated == state = FOREGROUND /\ env \in {"exit0", "exit1"}
                     started == env \in {"exit0", "exit1", "spawned"} /\ raised' = NoExc
                 IN  /\ terminated =>
                            outcome' = IF env = "exit1" /\ ~ignoring
                                       THEN Append(outcome, BLOCKED) ELSE outcome
                     /\ started =>
                            /\ processList' = Append(processList, nextProc')
                            /\ nextProc' \notin Range(processList)
                            /\ getInstanceCount(processCount', n) =
                                   getInstanceCount(processCount, n) + 1
                            /\ \A m \in Names \ {n} :
                                   getInstanceCount(processCount', m) =
                                       getInstanceCount(processCount, m)]_vars

\* a foreground process that exited with a non-zero status not to be ignored: BLOCKED
\* was added and the process listed and counted after an earlier one of its name
C35_Witness ==
    /\ lastOp.op = "startProcess" /\ lastOp.env = "exit1"
    /\ outcome # <<>> /\ outcome[Len(outcome)] = BLOCKED
    /\ raised = NoExc
    /\ processList # <<>> /\ processList[Len(processList)] = lastOp.proc
    /\ \E n \in Names : getInstanceCount(processCount, n) >= 2

fnLog == SelectSeq(cleanupLog, LAMBDA e : e.kind = "fn")

C15_FunctionsInReverseBeforeStops ==
    lastOp.op = "cleanup" =>
        /\ \A i, j \in 1..Len(cleanupLog) :
              (cleanupLog[i].kind = "fn" /\ cleanupLog[j].kind = "stop") => i < j
        /\ \A i \in 1..(Len(fnLog) - 1) : fnLog[i].pos = fnLog[i + 1].pos + 1
        /\ raised = NoExc => (fnLog # <<>> => fnLog[Len(fnLog)].pos = 1)
        /\ raised # NoExc => (fnLog # <<>> /\ fnLog[1].pos = Len(cleanupFunctions))

\* two functions were registered, a process was still running, and cleanup returned
C15_Witness ==
    /\ lastOp.op = "cleanup"
    /\ raised = NoExc
    /\ Len(fnLog) = 2
    /\ fnLog[1].fn # fnLog[2].fn
    /\ \E i \in 1..Len(cleanupLog) : cleanupLog[i].kind = "stop"

(***************************************************************************)
(* C16: cleanup is single-shot: over the life of the actor a cleanup       *)
(* function is invoked at most once for each time it was registered,       *)
(* however the first cleanup() ended.                                      *)
(***************************************************************************)
C16_FunctionsInvokedAtMostOnce ==
    \A f \in Fns : fnCalls[f] <= registrations[f]

TestOutcomes == {PASSED, FAILED, TIMEDOUT}

\* what happens while a stage of the container runs
StageEvents == {"ok", "KeyboardInterrupt", "Exception"}

NoTestOp == [kind |-> "return", outcome |-> "", abortOnError |-> None]

\* what setup, execute or validate of a test does before it returns or unwinds
TestOps ==
    {NoTestOp}
    \cup [kind : {"addOutcome"}, outcome : TestOutcomes, abortOnError : AbortArgs]
    \cup [kind : {"abort"}, outcome : TestOutcomes, abortOnError : {None}]
    \cup [kind : {"waitProcess"}, outcome : {""}, abortOnError : AbortArgs]
    \cup [kind : {"raise", "KeyboardInterrupt"}, outcome : {""}, abortOnError : {None}]

\* the outcome fields of the test object and the exception leaving a phase
testPhase(list, reason, dflt, op) ==
    CASE op.kind = "return" -> noAdd(list, reason)
      [] op.kind = "addOutcome" ->
            addOutcome(list, reason, dflt, op.outcome, "r1 ", op.abortOnError)
      [] op.kind = "abort" ->
            [noAdd(list, reason) EXCEPT !.raised = abort(op.outcome, "r1")]
      [] op.kind = "waitProcess" ->
            [noAdd(list, reason) EXCEPT !.raised = waitProcess_onTimeout(dflt, op.abortOnError)]
      [] op.kind = "raise" ->
            [noAdd(list, reason) EXCEPT !.raised = exception("Exception")]
      [] op.kind = "KeyboardInterrupt" ->
            [noAdd(list, reason) EXCEPT !.raised = exception("KeyboardInterrupt")]

\* __call__ 493-500: the two handlers of the try block of 468-491. Both call
\* self.testObj.addOutcome(BLOCKED) with the default abortOnError, outside any
\* try: what that call raises leaves the container
container_except(res, dflt, tobj) ==
    IF res.raised = NoExc THEN res
    ELSE IF tobj = None THEN [res EXCEPT !.raised = exception("AttributeError")]
    ELSE addOutcome(res.outcome, res.outcomeReason, dflt, BLOCKED, "", None)

\* __call__ 468-483: the branches that do not run the test
container_dispatch(list, reason, dflt, tobj, state, modeOk, nexc, kbrd) ==
    IF tobj = None THEN [noAdd(list, reason) EXCEPT !.raised = exception("AttributeError")]
    ELSE IF state # "runnable" THEN addOutcome(list, reason, dflt, SKIPPED, "", None)
    ELSE IF ~modeOk THEN addOutcome(list, reason, dflt, SKIPPED, "", None)
    ELSE IF nexc > 0 THEN addOutcome(list, reason, dflt, BLOCKED, "", None)
    ELSE IF kbrd THEN addOutcome(list, reason, dflt, BLOCKED, "", None)
    ELSE noAdd(list, reason)

\* whether __call__ 468-483 reaches the else branch that runs the test
container_runsTest(tobj, state, modeOk, nexc, kbrd) ==
    tobj # None /\ state = "runnable" /\ modeOk /\ nexc = 0 /\ ~kbrd

\* the reason history after the test object's list grew to newList
reasonsWith(newList, r) ==
    reasons \o [i \in 1..(Len(newList) - Len(outcome)) |-> IF i = 1 THEN r ELSE ""]

\* the outcome fields after a stage, and how the call goes on
ContainerStep(res, firstReason, next) ==
    /\ outcome' = res.outcome
    /\ outcomeReason' = res.outcomeReason
    /\ raised' = res.raised
    /\ reasons' = reasonsWith(res.outcome, firstReason)
    /\ IF res.raised # NoExc
       THEN cpc' = "done" /\ cresult' = "raised"
       ELSE cpc' = next /\ cresult' = IF next = "done" THEN "returned" ELSE cresult

\* __call__ 425-451: the output subdirectory and the run.log handler; logged
\* says whether ThreadedFileHandler(...'run.log') was reached before the event
MakeOutputDir(ev, logged) ==
    /\ cpc = "outsubdir"
    /\ ev = "ok" => logged
    /\ testFileHandler' = IF logged THEN "open" ELSE None
    /\ runLogExists' = logged
    /\ kbrdInt' = (ev = "KeyboardInterrupt")
    /\ exc_info' = IF ev = "Exception" THEN 1 ELSE 0
    /\ events' = [events EXCEPT !["outsubdir"] = ev]
    /\ cpc' = "import"
    /\ UNCHANGED <<outcomeVars, allocVars, processVars, runnerVars, perfVars, toolVars, descriptorState, modeSupported,
                   testObj, phasesRun, cleanupCalls, cresult, abortedWith,
                   listBeforeAbort, coreFile>>

\* __call__ 454-465: import the module and construct the test object
ImportTestClass(ev) ==
    /\ cpc = "import"
    /\ testObj' = CASE ev = "ok" -> "test"
                    [] ev = "KeyboardInterrupt" -> testObj
                    [] ev = "Exception" -> "placeholder"
    /\ kbrdInt' = (kbrdInt \/ ev = "KeyboardInterrupt")
    /\ exc_info' = IF ev = "Exception" THEN exc_info + 1 ELSE exc_info
    /\ events' = [events EXCEPT !["import"] = ev]
    /\ cpc' = "dispatch"
    /\ UNCHANGED <<outcomeVars, allocVars, processVars, runnerVars, perfVars, toolVars, descriptorState, modeSupported,
                   testFileHandler, runLogExists, phasesRun, cleanupCalls, cresult,
                   abortedWith, listBeforeAbort, coreFile>>

\* __call__ 468-483 with the handlers of 493-500: skip, block or go on to setup
Dispatch ==
    /\ cpc = "dispatch"
    /\ LET body == container_dispatch(outcome, outcomeReason, defaultAbortOnError, testObj,
                                      descriptorState, modeSupported, exc_info, kbrdInt)
           res == container_except(body, defaultAbortOnError, testObj)
       IN  ContainerStep(res, "",
                         IF container_runsTest(testObj, descriptorState, modeSupported,
                                               exc_info, kbrdInt)
                         THEN "setup" ELSE "cleanup")
    /\ UNCHANGED <<defaultAbortOnError, allocVars, processVars, runnerVars, perfVars, toolVars, descriptorState,
                   modeSupported, kbrdInt, exc_info, testObj, testFileHandler,
                   runLogExists, phasesRun, cleanupCalls, events, abortedWith,
                   listBeforeAbort, coreFile>>

\* __call__ 486-488 with the handlers of 493-500: setup, execute or validate
Phase(op, dumpsCore) ==
    /\ cpc \in {"setup", "execute", "validate"}
    /\ LET body == testPhase(outcome, outcomeReason, defaultAbortOnError, op)
           res == container_except(body, defaultAbortOnError, testObj)
           next == IF body.raised # NoExc THEN "cleanup"
                   ELSE CASE cpc = "setup" -> "execute"
                          [] cpc = "execute" -> "validate"
                          [] cpc = "validate" -> "detectCore"
           aborts == body.raised.type = "AbortExecution"
       IN  /\ ContainerStep(res, IF op.kind = "addOutcome" THEN "r1" ELSE "", next)
           /\ kbrdInt' = (kbrdInt \/ body.raised.type = "KeyboardInterrupt")
           /\ abortedWith' = IF aborts THEN body.raised ELSE abortedWith
           /\ listBeforeAbort' = IF aborts THEN outcome ELSE listBeforeAbort
           /\ events' = [events EXCEPT ![cpc] = IF body.raised = NoExc THEN "ok"
                                                ELSE body.raised.type]
    /\ phasesRun' = phasesRun \cup {cpc}
    \* a process of the test may leave a core file behind
    /\ coreFile' = (coreFile \/ dumpsCore)
    /\ UNCHANGED <<defaultAbortOnError, allocVars, processVars, runnerVars, perfVars, toolVars, descriptorState,
                   modeSupported, exc_info, testObj, testFileHandler, runLogExists,
                   cleanupCalls>>

\* __call__ 489-491 with the handlers of 493-500, and detectCore 554-566, which
\* finds a regular file of the output subdirectory whose name begins with core
DetectCore ==
    /\ cpc = "detectCore"
    /\ LET body == IF coreFile
                   THEN addOutcome(outcome, outcomeReason, defaultAbortOnError,
                                   DUMPEDCORE, "", None)
                   ELSE noAdd(outcome, outcomeReason)
           res == container_except(body, defaultAbortOnError, testObj)
       IN  ContainerStep(res, "", "cleanup")
    /\ events' = [events EXCEPT !["detectCore"] = IF coreFile THEN "core" ELSE "ok"]
    /\ UNCHANGED <<defaultAbortOnError, allocVars, processVars, runnerVars, perfVars, toolVars, descriptorState,
                   modeSupported, kbrdInt, exc_info, testObj, testFileHandler,
                   runLogExists, phasesRun, cleanupCalls, abortedWith, listBeforeAbort, coreFile>>

\* __call__ 504-526: testObj.cleanup(), the summary lines and return self.
\* ProcessUser.cleanup lets only a KeyboardInterrupt through (user.py 515, 522)
CleanupTest(ev) ==
    /\ cpc = "cleanup"
    /\ cleanupCalls' = cleanupCalls + 1
    /\ LET res == IF ev = "KeyboardInterrupt"
                  THEN addOutcome(outcome, outcomeReason, defaultAbortOnError,
                                  BLOCKED, "", None)
                  ELSE noAdd(outcome, outcomeReason)
       IN  /\ ContainerStep(res, "", "done")
           /\ testFileHandler' = IF res.raised = NoExc /\ testFileHandler = "open"
                                  THEN "closed" ELSE testFileHandler
    /\ kbrdInt' = (kbrdInt \/ ev = "KeyboardInterrupt")
    /\ events' = [events EXCEPT !["cleanup"] = ev]
    /\ UNCHANGED <<defaultAbortOnError, allocVars, processVars, runnerVars, perfVars, toolVars, descriptorState,
                   modeSupported, exc_info, testObj, runLogExists, phasesRun,
                   abortedWith, listBeforeAbort, coreFile>>

InitContainer ==
    /\ InitOutcomeVars
    /\ InitAllocVars
    /\ InitProcessVars
    /\ defaultIgnoreExitStatus = TRUE
    /\ InitContainerVars
    /\ IdleRunnerVars
    /\ InitPerfVars
    /\ IdleToolVars

NextContainer ==
    \/ \E ev \in StageEvents, logged \in BOOLEAN : MakeOutputDir(ev, logged)
    \/ \E ev \in StageEvents : ImportTestClass(ev)
    \/ Dispatch
    \/ \E op \in TestOps, dumpsCore \in BOOLEAN : Phase(op, dumpsCore)
    \/ DetectCore
    \/ \E ev \in {"ok", "KeyboardInterrupt"} : CleanupTest(ev)

SpecContainer == InitContainer /\ [][NextContainer]_vars

(***************************************************************************)
(* C6: a container call always returns: no exception leaves it.            *)
(***************************************************************************)
C6_ContainerNeverRaises == cresult # "raised"

(***************************************************************************)
(* C7: when a container call during which a keyboard interrupt was raised  *)
(* returns, BLOCKED is in the outcome list of the test and kbrdInt is      *)
(* true, whatever the descriptor's state and the run mode.                 *)
(***************************************************************************)
C7_InterruptGivesBlockedAndFlag ==
    (cresult = "returned" /\ \E s \in Stages : events[s] = "KeyboardInterrupt") =>
        /\ BLOCKED \in Range(outcome)
        /\ kbrdInt

(***************************************************************************)
(* C8: when the code of a test aborted with outcome O, the container call  *)
(* returns, O is in the outcome list, and O is the overall outcome unless  *)
(* an outcome of higher precedence was in the list before the abort.       *)
(***************************************************************************)
C8_AbortOutcomeIsRecorded ==
    (cpc = "done" /\ abortedWith # NoExc) =>
        /\ cresult = "returned"
        /\ abortedWith.outcome \in Range(outcome)
        /\ \/ getOutcome(outcome) = abortedWith.outcome
           \/ \E i \in DOMAIN listBeforeAbort :
                 index(listBeforeAbort[i]) < index(abortedWith.outcome)

(***************************************************************************)
(* C17: when the call of a container whose test phases were started        *)
(* returns and a core file was in the output subdirectory when the phases  *)
(* ended, DUMPEDCORE is in the outcome list, however the phases ended.     *)
(***************************************************************************)
C17_CoreFileGivesDumpedCore ==
    (cresult = "returned" /\ phasesRun # {} /\ coreFile) => DUMPEDCORE \in Range(outcome)

(***************************************************************************)
(* C18: when the descriptor is not runnable or the run mode is not         *)
(* supported, the call of the container adds SKIPPED, invokes no test      *)
(* phase, and the overall outcome is SKIPPED, whatever failed or was       *)
(* interrupted before.                                                     *)
(***************************************************************************)
C18_NotRunnableIsSkipped ==
    (cpc = "done" /\ (descriptorState # "runnable" \/ ~modeSupported)) =>
        /\ SKIPPED \in Range(outcome)
        /\ phasesRun = {}
        /\ getOutcome(outcome) = SKIPPED

(***************************************************************************)
(* C10: when the import of the test class raised an exception (runnable    *)
(* descriptor, supported mode, output directory and run.log set up), the   *)
(* test object is the placeholder, BLOCKED is recorded, no phase was       *)
(* invoked, cleanup() was invoked once, the call returned and run.log      *)
(* exists.                                                                 *)
(***************************************************************************)
C10_ImportFailureIsBlocked ==
    (/\ cpc = "done"
     /\ events["import"] = "Exception"
     /\ events["outsubdir"] = "ok"
     /\ descriptorState = "runnable"
     /\ modeSupported) =>
        /\ testObj = "placeholder"
        /\ BLOCKED \in Range(outcome)
        /\ phasesRun = {}
        /\ cleanupCalls = 1
        /\ cresult = "returned"
        /\ runLogExists

(***************************************************************************)
(* BaseRunner.start, containerCallback, containerExceptionCallback and     *)
(* handleKbrdInt (baserunner.py 201-391). The runner dispatches            *)
(* MaxDescriptors descriptors in each cycle. A container is seen from      *)
(* outside: its call returns the container, with the overall outcome of    *)
(* its test and its kbrdInt flag, or raises.                               *)
(***************************************************************************)
\* a container as the runner sees it once its call is over
TestContainer(k, c, o, kbrd) == [counter |-> k, cycle |-> c, outcome |-> o, kbrdInt |-> kbrd]

\* an empty slot of resultsQueue
NoContainer == TestContainer(-1, -1, "", FALSE)

\* how the call of a container ends
ContainerResults ==
    {[raised |-> FALSE, outcome |-> PASSED, kbrdInt |-> FALSE],
     [raised |-> FALSE, outcome |-> BLOCKED, kbrdInt |-> TRUE],
     [raised |-> TRUE, outcome |-> "", kbrdInt |-> FALSE]}

\* the answers handleKbrdInt reads from stdin
Answers == {"yes", "no"}

\* the fields of the runner that containerCallback works on
runnerFields ==
    [resultsQueue |-> resultsQueue, resultsPointer |-> resultsPointer,
     results |-> results, duration |-> duration, published |-> published,
     terminated |-> FALSE]

\* containerCallback 326-355: publish from the cursor while the slot is filled;
\* the answer "no" to the prompt of 347 ends the run before the tally
RECURSIVE containerCallback_loop(_, _, _)
containerCallback_loop(st, i, answer) ==
    IF i >= Len(st.resultsQueue) THEN st
    ELSE IF st.resultsQueue[i + 1] = NoContainer THEN st
    ELSE LET c == st.resultsQueue[i + 1]
             shown == [st EXCEPT !.published =
                                    Append(@, [cycle |-> c.cycle, counter |-> c.counter])]
         IN  IF c.kbrdInt /\ answer = "no" THEN [shown EXCEPT !.terminated = TRUE]
             ELSE containerCallback_loop(
                      [shown EXCEPT !.duration = @ + 1,
                                    !.results[c.cycle][c.outcome] = Append(@, c.counter),
                                    !.resultsQueue[i + 1] = NoContainer,
                                    !.resultsPointer = @ + 1],
                      i + 1, answer)

containerCallback_onArrival(st, container, answer) ==
    LET shown == [st EXCEPT !.published =
                       Append(@, [cycle |-> container.cycle, counter |-> container.counter])]
    IN  IF container.kbrdInt /\ answer = "no" THEN [shown EXCEPT !.terminated = TRUE]
        ELSE [shown EXCEPT !.duration = @ + 1,
                           !.results[container.cycle][container.outcome] =
                               Append(@, container.counter),
                           !.resultsPointer = @ + 1]

\* BaseRunner.containerCallback
containerCallback(st, container, answer) ==
    containerCallback_loop([st EXCEPT !.resultsQueue[container.counter + 1] = container],
                           st.resultsPointer, answer)

\* BaseRunner.cleanup 193-197: ProcessUser defines no __del__, the call raises
BaseRunner_cleanup == exception("AttributeError")

\* where the caller of self.cleanup() goes on
afterCleanup(next) == IF BaseRunner_cleanup = NoExc THEN next ELSE "crashed"

\* the hooks of the runner and the methods of the writers that plugins supply
Plugins == {"setup", "writers.setup", "testComplete", "processResult", "cycleComplete",
            "writers.cleanup"}

\* a call of a hook or a writer method; faulty: the calls that raise an Exception
called(call, faulty) == IF call \in faulty THEN <<call, "Exception">> ELSE <<call>>

\* start 217-220, 268-271: a call made on each writer when recording
writers(call, faulty) == IF record THEN called(call, faulty) ELSE <<>>

\* containerCallback 341-344: the processResult calls of n published containers
RECURSIVE processResults(_, _)
processResults(n, faulty) ==
    IF ~record \/ n <= 0 THEN <<>>
    ELSE called("processResult", faulty) \o processResults(n - 1, faulty)

\* handleKbrdInt 372-377, 385-389: the run is given up
handleKbrdInt_quit == <<"printSummary", "cycleComplete", "cleanup">>

\* the runner's fields after a callback, and where start goes on
RunnerStep(st, next, faulty) ==
    /\ resultsQueue' = st.resultsQueue
    /\ resultsPointer' = st.resultsPointer
    /\ results' = st.results
    /\ duration' = st.duration
    /\ published' = st.published
    /\ hooks' = hooks \o processResults(Len(st.published) - Len(published), faulty)
                     \o (IF st.terminated THEN handleKbrdInt_quit ELSE <<>>)
    /\ rpc' = IF st.terminated THEN afterCleanup("terminated") ELSE next

\* start 244-256: where start goes on after the dispatch loop
afterDispatch == IF threads > 1 THEN "wait" ELSE "cycleComplete"

\* start 213-226: the setup hook, the writers' setup, the thread pool
Start(faulty) ==
    /\ rpc = "setup"
    \* 214: what the setup hook raises leaves start
    /\ hooks' = called("setup", faulty)
                 \o (IF "setup" \in faulty THEN <<>> ELSE writers("writers.setup", faulty))
    /\ rpc' = IF "setup" \in faulty THEN "crashed" ELSE "cycle"
    /\ UNCHANGED <<outcomeVars, allocVars, processVars, containerVars, perfVars, toolVars, threads, numCycles,
                   cycle, counter, resultsQueue, resultsPointer, results, duration,
                   requests, executing, poolResults, published, heldBack, record>>

\* start 227-235: the next cycle begins
BeginCycle ==
    /\ rpc = "cycle"
    /\ cycle < numCycles
    /\ resultsPointer' = 0
    /\ resultsQueue' = <<>>
    /\ results' = dict_set(results, cycle, [o \in Outcomes |-> <<>>])
    /\ counter' = 0
    /\ rpc' = "dispatch"
    /\ UNCHANGED <<outcomeVars, allocVars, processVars, containerVars, perfVars, toolVars, threads, numCycles,
                   cycle, duration, requests, executing, poolResults, published, heldBack, record, hooks>>

\* start 267-280: after the last cycle the writers' cleanup, the summary, the
\* cleanup hook and the return of self.results
Finish(printSummary, faulty) ==
    /\ rpc = "cycle"
    /\ cycle = numCycles
    /\ hooks' = hooks \o writers("writers.cleanup", faulty)
                     \o (IF printSummary THEN <<"printSummary">> ELSE <<>>)
                     \o <<"cleanup">>
    /\ rpc' = afterCleanup("done")
    /\ UNCHANGED <<outcomeVars, allocVars, processVars, containerVars, perfVars, toolVars, threads, numCycles,
                   cycle, counter, resultsQueue, resultsPointer, results, duration,
                   requests, executing, poolResults, published, heldBack, record>>

\* start 236-241, 244: one iteration of the dispatch loop with a thread pool
PutRequest ==
    /\ rpc = "dispatch"
    /\ threads > 1
    /\ counter < MaxDescriptors
    /\ resultsQueue' = Append(resultsQueue, NoContainer)
    /\ requests' = Append(requests, counter)
    /\ counter' = counter + 1
    /\ rpc' = IF counter + 1 = MaxDescriptors THEN afterDispatch ELSE rpc
    /\ UNCHANGED <<outcomeVars, allocVars, processVars, containerVars, perfVars, toolVars, threads, numCycles,
                   cycle, resultsPointer, results, duration, executing, poolResults,
                   published, heldBack, record, hooks>>

\* start 236-238, 243-244: one iteration of the dispatch loop without a pool; an
\* exception that leaves the container leaves start
RunInline(res, answer, faulty) ==
    /\ rpc = "dispatch"
    /\ threads = 1
    /\ counter < MaxDescriptors
    /\ LET container == TestContainer(counter, cycle, res.outcome, res.kbrdInt)
           queued == [runnerFields EXCEPT !.resultsQueue = Append(@, NoContainer)]
       IN  IF res.raised
           THEN /\ RunnerStep(queued, "crashed", faulty)
                /\ UNCHANGED <<counter, heldBack>>
           ELSE IF "testComplete" \in faulty
           \* 338: what the testComplete hook raises leaves containerCallback and start
           THEN /\ resultsQueue' = [queued.resultsQueue EXCEPT ![counter + 1] = container]
                /\ hooks' = hooks \o called("testComplete", faulty)
                /\ rpc' = "crashed"
                /\ UNCHANGED <<counter, heldBack, resultsPointer, results, duration,
                               published>>
           ELSE /\ RunnerStep(containerCallback(queued, container, answer),
                              IF counter + 1 = MaxDescriptors THEN afterDispatch ELSE rpc,
                              faulty)
                /\ counter' = counter + 1
                /\ heldBack' = (heldBack \/ counter > resultsPointer)
    /\ UNCHANGED <<outcomeVars, allocVars, processVars, containerVars, perfVars, toolVars, threads, numCycles,
                   cycle, requests, executing, poolResults, record>>

\* start 245-247 and handleKbrdInt: a keyboard interrupt in the dispatch loop
\* abandons the rest of the loop, or ends the run and with it the pool
DispatchInterrupt(answer) ==
    /\ rpc = "dispatch"
    /\ rpc' = IF answer = "yes" THEN afterDispatch ELSE afterCleanup("terminated")
    /\ hooks' = IF answer = "yes" THEN hooks ELSE hooks \o handleKbrdInt_quit
    /\ requests' = IF answer = "yes" THEN requests ELSE <<>>
    /\ executing' = IF answer = "yes" THEN executing ELSE {}
    /\ poolResults' = IF answer = "yes" THEN poolResults ELSE <<>>
    /\ UNCHANGED <<outcomeVars, allocVars, processVars, containerVars, perfVars, toolVars, threads, numCycles,
                   cycle, counter, resultsQueue, resultsPointer, results, duration,
                   published, heldBack, record>>

\* ThreadPool: a free worker takes the oldest request
WorkerTakes ==
    /\ rpc \in {"dispatch", "wait"}
    /\ requests # <<>>
    /\ Cardinality(executing) < threads
    /\ executing' = executing \cup {Head(requests)}
    /\ requests' = Tail(requests)
    /\ UNCHANGED <<outcomeVars, allocVars, processVars, containerVars, perfVars, toolVars, rpc, threads,
                   numCycles, cycle, counter, resultsQueue, resultsPointer, results,
                   duration, poolResults, published, heldBack, record, hooks>>

\* ThreadPool: the call of a container ends on its worker
WorkerCompletes(k, res) ==
    /\ rpc \in {"dispatch", "wait"}
    /\ k \in executing
    /\ executing' = executing \ {k}
    /\ poolResults' = Append(poolResults,
                             [exception |-> res.raised,
                              container |-> TestContainer(k, cycle, res.outcome, res.kbrdInt)])
    /\ UNCHANGED <<outcomeVars, allocVars, processVars, containerVars, perfVars, toolVars, rpc, threads,
                   numCycles, cycle, counter, resultsQueue, resultsPointer, results,
                   duration, requests, published, heldBack, record, hooks>>

\* ThreadPool.wait (start 252): the pool hands the oldest result to
\* containerCallback, or to containerExceptionCallback (358-364), which only logs
PoolDeliver(answer) ==
    /\ rpc = "wait"
    /\ poolResults # <<>>
    /\ LET r == Head(poolResults)
       IN  IF r.exception
           THEN /\ RunnerStep(runnerFields, rpc, {})
                /\ UNCHANGED heldBack
           ELSE /\ RunnerStep(containerCallback(runnerFields, r.container, answer), rpc, {})
                /\ heldBack' = (heldBack \/ r.container.counter > resultsPointer)
    /\ poolResults' = Tail(poolResults)
    /\ UNCHANGED <<outcomeVars, allocVars, processVars, containerVars, perfVars, toolVars, threads, numCycles,
                   cycle, counter, requests, executing, record>>

\* ThreadPool.wait returns once no request is outstanding
WaitReturns ==
    /\ rpc = "wait"
    /\ requests = <<>> /\ executing = {} /\ poolResults = <<>>
    /\ rpc' = "cycleComplete"
    /\ UNCHANGED <<outcomeVars, allocVars, processVars, containerVars, perfVars, toolVars, threads, numCycles,
                   cycle, counter, resultsQueue, resultsPointer, results, duration,
                   requests, executing, poolResults, published, heldBack, record, hooks>>

\* start 253-256: a keyboard interrupt during the wait dismisses the workers
\* and ends the run (handleKbrdInt with prompt=False)
WaitInterrupt ==
    /\ rpc = "wait"
    /\ rpc' = afterCleanup("terminated")
    /\ hooks' = hooks \o handleKbrdInt_quit
    /\ requests' = <<>>
    /\ executing' = {}
    /\ poolResults' = <<>>
    /\ UNCHANGED <<outcomeVars, allocVars, processVars, containerVars, perfVars, toolVars, threads, numCycles,
                   cycle, counter, resultsQueue, resultsPointer, results, duration,
                   published, heldBack, record>>

\* start 258-265: the cycleComplete hook, then the next iteration of the cycle loop
CycleComplete(faulty) ==
    /\ rpc = "cycleComplete"
    \* 264-265: what the cycleComplete hook raises is logged
    /\ hooks' = hooks \o called("cycleComplete", faulty)
    /\ cycle' = cycle + 1
    /\ rpc' = "cycle"
    /\ UNCHANGED <<outcomeVars, allocVars, processVars, containerVars, perfVars, toolVars, threads, numCycles,
                   counter, resultsQueue, resultsPointer, results, duration, requests,
                   executing, poolResults, published, heldBack, record>>

\* start 261-263: a keyboard interrupt in the cycleComplete hook; the answer "no"
\* gives the run up inside the cycle loop
CycleCompleteInterrupt ==
    /\ rpc = "cycleComplete"
    /\ hooks' = Append(hooks, "cycleComplete") \o handleKbrdInt_quit
    /\ rpc' = afterCleanup("terminated")
    /\ UNCHANGED <<outcomeVars, allocVars, processVars, containerVars, perfVars, toolVars, threads, numCycles,
                   cycle, counter, resultsQueue, resultsPointer, results, duration, requests,
                   executing, poolResults, published, heldBack, record>>

InitRunner ==
    /\ InitOutcomeVars
    /\ InitAllocVars
    /\ InitProcessVars
    /\ defaultAbortOnError = FALSE
    /\ defaultIgnoreExitStatus = TRUE
    /\ IdleContainerVars
    /\ InitRunnerVars
    /\ numCycles = MaxCycles
    /\ record = TRUE
    /\ InitPerfVars
    /\ IdleToolVars

NextRunner ==
    \/ Start({})
    \/ BeginCycle
    \/ \E printSummary \in BOOLEAN : Finish(printSummary, {})
    \/ PutRequest
    \/ \E res \in ContainerResults, answer \in Answers : RunInline(res, answer, {})
    \/ \E answer \in Answers : DispatchInterrupt(answer)
    \/ WorkerTakes
    \/ \E k \in 0..(MaxDescriptors - 1), res \in ContainerResults : WorkerCompletes(k, res)
    \/ \E answer \in Answers : PoolDeliver(answer)
    \/ WaitReturns
    \/ WaitInterrupt
    \/ CycleComplete({})
    \/ CycleCompleteInterrupt

SpecRunner == InitRunner /\ [][NextRunner]_vars

(***************************************************************************)
(* C1: within each cycle the containers are published in the order of      *)
(* their submission counters 0, 1, 2, ...: the i-th container published in *)
(* a cycle has counter i-1 (none before its predecessors, none skipped,    *)
(* none twice), and the tally of each outcome lists published containers   *)
(* in that order, each once.                                               *)
(***************************************************************************)
publishedIn(c) == SelectSeq(published, LAMBDA e : e.cycle = c)

C1_PublishedInSubmissionOrder ==
    /\ \A c \in 0..(numCycles - 1) :
          \A i \in 1..Len(publishedIn(c)) : publishedIn(c)[i].counter = i - 1
    /\ \A c \in DOMAIN results : \A o \in Outcomes :
          /\ \A i \in 1..Len(results[c][o]) : results[c][o][i] < Len(publishedIn(c))
          /\ \A i, j \in 1..Len(results[c][o]) : i < j => results[c][o][i] < results[c][o][j]

\* a container completed before an earlier one of its cycle and both were published
C1_Witness ==
    /\ threads > 1
    /\ heldBack
    /\ Len(publishedIn(0)) >= 2
    /\ Len(results[0][PASSED]) >= 2

(***************************************************************************)
(* C13: once the run has completed all its cycles, every descriptor of     *)
(* every cycle is tallied exactly once in self.results (so the tally of a  *)
(* cycle counts as many entries as there are descriptors).                 *)
(***************************************************************************)
tallyCount(c, k) ==
    Cardinality(UNION {{<<o, i>> : i \in {j \in 1..Len(results[c][o]) : results[c][o][j] = k}} :
                       o \in Outcomes})

C13_EveryDescriptorTalliedOnce ==
    cycle = numCycles =>
        \A c \in 0..(numCycles - 1) : \A k \in 0..(MaxDescriptors - 1) :
            c \in DOMAIN results /\ tallyCount(c, k) = 1

(***************************************************************************)
(* C14: when the runner has printed its summary or stopped through its     *)
(* cleanup, with recording on, the containers forwarded to the writers'    *)
(* processResult are exactly the containers tallied in self.results, and   *)
(* self.duration counts each of them.                                      *)
(***************************************************************************)
forwarded == {<<published[i].cycle, published[i].counter>> : i \in 1..Len(published)}

tallied ==
    UNION {UNION {{<<c, results[c][o][i]>> : i \in 1..Len(results[c][o])} : o \in Outcomes} :
           c \in DOMAIN results}

C14_ForwardedAreTallied ==
    (record /\ ({"printSummary", "cleanup"} \cap Range(hooks)) # {}) =>
        (forwarded = tallied /\ duration = Len(published))

(***************************************************************************)
(* C19: the hooks and writer calls of a run come in a fixed order: setup   *)
(* first and once, the writers' setup once, the writers' cleanup once, the *)
(* runner's cleanup once and last; no processResult before the writers'    *)
(* setup or after the writers' cleanup; and when the writers were set up,  *)
(* their cleanup is called before the runner's cleanup.                    *)
(***************************************************************************)
hookCount(call) == Cardinality({i \in 1..Len(hooks) : hooks[i] = call})

hookBefore(call, i) == \E j \in 1..(i - 1) : hooks[j] = call

C19_HooksAndWritersInOrder ==
    /\ hooks # <<>> => hooks[1] = "setup"
    /\ \A call \in {"setup", "writers.setup", "writers.cleanup", "cleanup"} :
          hookCount(call) <= 1
    /\ \A i \in 1..Len(hooks) :
          /\ hooks[i] = "processResult" =>
                 (hookBefore("writers.setup", i) /\ ~hookBefore("writers.cleanup", i))
          /\ hooks[i] = "cycleComplete" => ~hookBefore("writers.cleanup", i)
          /\ hooks[i] = "cleanup" =>
                 /\ i = Len(hooks)
                 /\ hookBefore("writers.setup", i) => hookBefore("writers.cleanup", i)

(***************************************************************************)
(* C20: a run given up on a keyboard interrupt has printed the summary and *)
(* called cycleComplete and cleanup for that, each once, and exits with a  *)
(* nonzero status; a run whose cycles all complete returns its results.    *)
(***************************************************************************)
ended == rpc \in {"done", "terminated", "crashed"}

givenUp ==
    /\ Len(hooks) >= Len(handleKbrdInt_quit)
    /\ SubSeq(hooks, Len(hooks) - Len(handleKbrdInt_quit) + 1, Len(hooks)) = handleKbrdInt_quit

C20_QuitExitsElseReturns ==
    /\ givenUp => (rpc = "terminated" /\ hookCount("printSummary") = 1 /\ hookCount("cleanup") = 1)
    /\ (ended /\ ~givenUp /\ cycle = numCycles) => rpc = "done"

(***************************************************************************)
(* C31: with a thread pool, cycleComplete is called for a cycle only once  *)
(* every container dispatched in the cycle has completed and has been      *)
(* published, and no container of the next cycle is queued or executing    *)
(* before that call has returned.                                          *)
(***************************************************************************)
\* the hook is called in this step
cycleCompleteCalled == hookCount("cycleComplete")' > hookCount("cycleComplete")

\* nothing of the cycle is outstanding in the pool
cycleDrained == requests = <<>> /\ executing = {} /\ poolResults = <<>>

C31_CycleCompleteAfterPoolDrained ==
    [][threads > 1 =>
          /\ cycleCompleteCalled =>
                 (cycleDrained /\ Len(SelectSeq(published', LAMBDA e : e.cycle = cycle)) = counter)
          /\ cycle' # cycle => (cycleDrained /\ cycleCompleteCalled)]_vars

(***************************************************************************)
(* C37: in a run with a thread pool in which every container call ends, by *)
(* returning or by raising, every container dispatched in a cycle has been *)
(* published and tallied when the cycle ends: the publish cursor has       *)
(* reached the number of dispatched descriptors, whatever one of the       *)
(* containers did.                                                         *)
(***************************************************************************)
C37_CursorReachesDispatchedCount ==
    (threads > 1 /\ rpc = "cycleComplete") =>
        /\ resultsPointer = counter
        /\ Len(publishedIn(cycle)) = counter
        /\ \A k \in 0..(counter - 1) : tallyCount(cycle, k) = 1

(***************************************************************************)
(* C38: a keyboard interrupt caught in the dispatch loop and answered with *)
(* yes does not end the loop: when start goes on to the wait or to         *)
(* cycleComplete, every descriptor of the cycle has been dispatched, and   *)
(* without a pool every one of them has been executed and published.       *)
(***************************************************************************)
C38_InterruptedDispatchGoesOn ==
    /\ rpc \in {"wait", "cycleComplete"} => counter = MaxDescriptors
    /\ (rpc = "cycleComplete" /\ threads = 1) => Len(publishedIn(cycle)) = MaxDescriptors

(***************************************************************************)
(* SpecPlugins: a run without a pool and without keyboard interrupts, in   *)
(* which every container returns and the hooks of the runner and the       *)
(* methods of the writers may raise an Exception.                          *)
(***************************************************************************)
InitPlugins ==
    /\ InitRunner
    /\ threads = 1

NextPlugins ==
    \/ \E faulty \in SUBSET Plugins : Start(faulty)
    \/ BeginCycle
    \/ \E printSummary \in BOOLEAN, faulty \in SUBSET Plugins : Finish(printSummary, faulty)
    \/ \E faulty \in SUBSET Plugins :
          RunInline([raised |-> FALSE, outcome |-> PASSED, kbrdInt |-> FALSE], "yes", faulty)
    \/ \E faulty \in SUBSET Plugins : CycleComplete(faulty)

SpecPlugins == InitPlugins /\ [][NextPlugins]_vars

(***************************************************************************)
(* C21: an Exception raised by a hook of the runner or by a method of a    *)
(* writer does not end the run: when the run has ended, every container of *)
(* every cycle was published and start returned the results.               *)
(***************************************************************************)
C21_PluginFaultsDoNotEndRun ==
    (ended /\ "Exception" \in Range(hooks)) =>
        (Len(published) = numCycles * MaxDescriptors /\ rpc = "done")

(***************************************************************************)
(* CSVPerformanceReporter.reportResult (perfreporter.py 121-176). One      *)
(* reporter serves the run; test objects are created (one per descriptor   *)
(* and cycle), report results and are released when their container is     *)
(* deleted. hash(testobj) is the object's address, which a later object    *)
(* may be given once the earlier one is released.                          *)
(***************************************************************************)
\* descriptor ids, result keys and resultDetails the tests pass
TestIds == {"Test_001", "Test_002"}

ResultKeys == {"k", "k ", "a  b"}

ResultDetails == {<<>>, <<<<"mode", "fast">>>>}

\* the addresses the allocator hands out
Addresses == {16, 32}

\* reportResult 131-138: the format checks on the stripped key
validKey(key) == key # "a  b"

\* hash(testobj)
hash(test) == test.addr

\* reportResult 171-176: a row is written unless the test has failed
reportResult_record(st) ==
    [st EXCEPT !.wrote = getOutcome(st.res.outcome) \notin FAILS]

\* CSVPerformanceReporter.reportResult: the reporter's dict, the outcome fields of
\* the test with the exception raised, and whether recordResult wrote a row
reportResult(prev, test, resultKey, resultDetails, dflt) ==
    LET key == strip(resultKey)
        d == Append(resultDetails, <<"testId", test.testId>>)
        none == [previousResultKeys |-> prev,
                 res |-> noAdd(test.outcome, test.outcomeReason),
                 wrote |-> FALSE]
    IN  IF ~validKey(key) THEN [none EXCEPT !.res.raised = exception("Exception")]
        ELSE IF key \in DOMAIN prev
        THEN IF prev[key].hash = hash(test)
             THEN [none EXCEPT !.res = addOutcome(test.outcome, test.outcomeReason, dflt,
                        BLOCKED, "resultKey was already used by this test", None)]
             ELSE IF prev[key].testId # test.testId \/ prev[key].details # d
             THEN [none EXCEPT !.res = addOutcome(test.outcome, test.outcomeReason, dflt,
                        BLOCKED, "resultKey was already used", None)]
             ELSE reportResult_record(none)
        ELSE reportResult_record(
                 [none EXCEPT !.previousResultKeys =
                     dict_set(prev, key, [testId |-> test.testId, hash |-> hash(test),
                                          details |-> d])])

\* a container constructs the test object of a descriptor
NewTestObject(id, addr) ==
    /\ nextTest < MaxTests
    /\ \A t \in 1..nextTest : perfTests[t].live => perfTests[t].addr # addr
    /\ perfTests' = Append(perfTests, [testId |-> id, addr |-> addr, live |-> TRUE,
                                        outcome |-> <<>>, outcomeReason |-> "",
                                        reported |-> {}])
    /\ nextTest' = nextTest + 1
    /\ UNCHANGED <<outcomeVars, allocVars, processVars, containerVars, runnerVars, toolVars,
                   previousResultKeys, rows, keyOwner, lastReport>>

\* the test adds a failure outcome of its own
TestObjectFails(t) ==
    /\ t \in 1..nextTest
    /\ perfTests[t].live
    /\ perfTests[t].outcome = <<>>
    /\ LET res == addOutcome(perfTests[t].outcome, perfTests[t].outcomeReason,
                             defaultAbortOnError, FAILED, "", "False")
       IN  perfTests' = [perfTests EXCEPT ![t].outcome = res.outcome,
                                          ![t].outcomeReason = res.outcomeReason]
    /\ UNCHANGED <<outcomeVars, allocVars, processVars, containerVars, runnerVars, toolVars,
                   previousResultKeys, nextTest, rows, keyOwner, lastReport>>

\* containerCallback 354: the container and its test object are deleted
ReleaseTestObject(t) ==
    /\ t \in 1..nextTest
    /\ perfTests[t].live
    /\ perfTests' = [perfTests EXCEPT ![t].live = FALSE]
    /\ UNCHANGED <<outcomeVars, allocVars, processVars, containerVars, runnerVars, toolVars,
                   previousResultKeys, nextTest, rows, keyOwner, lastReport>>

\* a test object calls reportResult
ReportResult(t, resultKey, resultDetails) ==
    /\ t \in 1..nextTest
    /\ perfTests[t].live
    /\ lastReport.n < MaxReports
    /\ LET test == perfTests[t]
           key == strip(resultKey)
           d == Append(resultDetails, <<"testId", test.testId>>)
           r == reportResult(previousResultKeys, test, resultKey, resultDetails,
                             defaultAbortOnError)
           owned == key \in DOMAIN keyOwner
           sameCombination == owned /\ keyOwner[key].testId = test.testId
                                    /\ keyOwner[key].details = d
       IN  /\ previousResultKeys' = r.previousResultKeys
           /\ perfTests' = [perfTests EXCEPT
                               ![t].outcome = r.res.outcome,
                               ![t].outcomeReason = r.res.outcomeReason,
                               ![t].reported = IF validKey(key) THEN @ \cup {key} ELSE @]
           /\ raised' = r.res.raised
           /\ rows' = IF r.wrote
                      THEN Append(rows, [resultKey |-> key, testId |-> test.testId,
                                         details |-> d, obj |-> t])
                      ELSE rows
           /\ keyOwner' = IF validKey(key) /\ ~owned
                          THEN dict_set(keyOwner, key,
                                        [obj |-> t, testId |-> test.testId, details |-> d])
                          ELSE keyOwner
           /\ lastReport' = [n |-> lastReport.n + 1, obj |-> t, resultKey |-> key,
                             repeated |-> key \in test.reported,
                             conflicts |-> owned /\ ~sameCombination,
                             otherCycle |-> sameCombination /\ keyOwner[key].obj # t,
                             failed |-> getOutcome(test.outcome) \in FAILS,
                             blocked |-> Len(r.res.outcome) > Len(test.outcome),
                             wrote |-> r.wrote]
    /\ UNCHANGED <<outcome, outcomeReason, defaultAbortOnError, reasons, allocVars,
                   processVars, containerVars, runnerVars, toolVars, nextTest>>

InitReporter ==
    /\ InitOutcomeVars
    /\ InitAllocVars
    /\ InitProcessVars
    /\ defaultIgnoreExitStatus = TRUE
    /\ IdleContainerVars
    /\ IdleRunnerVars
    /\ InitPerfVars
    /\ IdleToolVars

NextReporter ==
    \/ \E id \in TestIds, addr \in Addresses : NewTestObject(id, addr)
    \/ \E t \in 1..MaxTests : TestObjectFails(t)
    \/ \E t \in 1..MaxTests : ReleaseTestObject(t)
    \/ \E t \in 1..MaxTests, k \in ResultKeys, d \in ResultDetails : ReportResult(t, k, d)

SpecReporter == InitReporter /\ [][NextReporter]_vars

(***************************************************************************)
(* C11: a reportResult call by a test object with a resultKey that this    *)
(* object has reported before adds BLOCKED to the test and writes no row.  *)
(***************************************************************************)
C11_RepeatedKeyIsBlocked ==
    lastReport.repeated => (lastReport.blocked /\ ~lastReport.wrote)

(***************************************************************************)
(* C12: a reportResult call whose key was first reported with another      *)
(* testId or other resultDetails adds BLOCKED and writes no row, so the    *)
(* rows of one key all carry one (testId, resultDetails); a call by        *)
(* another test object with the testId and resultDetails of the first      *)
(* report is not blocked and, the test not having failed, writes its row.  *)
(***************************************************************************)
C12_KeyHasOneCombination ==
    /\ lastReport.conflicts => (lastReport.blocked /\ ~lastReport.wrote)
    /\ \A i, j \in 1..Len(rows) :
          rows[i].resultKey = rows[j].resultKey =>
              (rows[i].testId = rows[j].testId /\ rows[i].details = rows[j].details)
    /\ (lastReport.otherCycle /\ ~lastReport.failed) =>
          (~lastReport.blocked /\ lastReport.wrote)

(***************************************************************************)
(* BaseRunner.testComplete (baserunner.py 142-183): the purge of the       *)
(* output subdirectory of a test that has completed.                       *)
(***************************************************************************)
\* the outcome lists of the tests that complete
CompletedOutcomes == {<<>>, <<PASSED>>, <<PASSED, PASSED>>, <<PASSED, FAILED>>, <<FAILED>>}

\* testComplete 156-163
removeNonZero(prg, outcomes) == prg /\ \A i \in DOMAIN outcomes : outcomes[i] = PASSED

\* testComplete 165-183; stuck: the files os.remove fails on three times
testComplete(dir, prg, outcomes, stuck) ==
    LET removed == {f \in DOMAIN dir :
                       /\ dir[f] = 0 \/ (removeNonZero(prg, outcomes) /\ ~re_search_run_log(f))
                       /\ f \notin stuck}
    IN  [f \in DOMAIN dir \ removed |-> dir[f]]

\* BaseRunner.testComplete
TestComplete(stuck) ==
    /\ ~lastPurge.done
    /\ stuck \subseteq DOMAIN outdir
    /\ outdir' = testComplete(outdir, purge, outcome, stuck)
    /\ lastPurge' = [done |-> TRUE, stuck |-> stuck]
    /\ UNCHANGED <<outcomeVars, allocVars, processVars, containerVars, runnerVars, perfVars,
                   exceptPurgeVars, purge>>

InitPurge ==
    /\ outcome \in CompletedOutcomes
    /\ outcomeReason = ""
    /\ reasons = [i \in DOMAIN outcome |-> ""]
    /\ defaultAbortOnError = FALSE
    /\ raised = NoExc
    /\ InitAllocVars
    /\ InitProcessVars
    /\ defaultIgnoreExitStatus = TRUE
    /\ IdleContainerVars
    /\ IdleRunnerVars
    /\ InitPerfVars
    /\ InitPurgeVars
    /\ IdleSignalVars
    /\ IdleAggVars
    /\ IdleCsvVars
    /\ IdleRecVars
    /\ IdleDirVars
    /\ IdleLoadVars

NextPurge == \E stuck \in SUBSET FileNames : TestComplete(stuck)

SpecPurge == InitPurge /\ [][NextPurge]_vars

(***************************************************************************)
(* C22: after testComplete (every removal having succeeded) no file of     *)
(* length zero is left in the output subdirectory, and when purge is set   *)
(* and every outcome of the test is PASSED no file but run.log is left.    *)
(***************************************************************************)
C22_PurgeLeavesOnlyRunLog ==
    (lastPurge.done /\ lastPurge.stuck = {}) =>
        /\ \A f \in DOMAIN outdir : outdir[f] # 0
        /\ (purge /\ outcome # <<>> /\ \A i \in DOMAIN outcome : outcome[i] = PASSED) =>
               DOMAIN outdir \subseteq {"run.log"}

(***************************************************************************)
(* C39: testComplete removes no file of non-zero length of a test whose    *)
(* overall outcome is not PASSED, with purge on or off; a test that        *)
(* recorded no outcome has the overall outcome NOTVERIFIED.                *)
(***************************************************************************)
C39_NonZeroFilesOfNonPassedTestKept ==
    [][getOutcome(outcome) # PASSED =>
          \A f \in DOMAIN outdir :
              outdir[f] > 0 => (f \in DOMAIN outdir' /\ outdir'[f] = outdir[f])]_vars

(***************************************************************************)
(* ProcessUser.waitForSignal (user.py 401-484), one action per pass of the *)
(* while loop; the time is counted in poll intervals. No process is        *)
(* passed.                                                                 *)
(***************************************************************************)
\* eval("%d %s" % (len(matches), condition))
evalCondition(n, condition) ==
    CASE condition = "==0" -> n = 0
      [] condition = ">=1" -> n >= 1

\* waitForSignal 428: the abortOnError the call works with
sigAborts == IF sigAbortOnError = None THEN defaultAbortOnError ELSE sigAbortOnError = "True"

\* waitForSignal 458: the reason of the outcome an errorExpr match gives
errorFoundDuringWait == "error found during wait for signal"

\* waitForSignal that does not look for the errorExpr
waitForSignal_onError_ignored(list, reason, dflt, abortOnError) == noAdd(list, reason)

\* waitForSignal 454-461: a line of the file matches an errorExpr
waitForSignal_onError(list, reason, dflt, abortOnError) ==
    addOutcome(list, reason, dflt, BLOCKED, errorFoundDuringWait, abortOnError)

\* waitForSignal 444-483: one pass of the loop
WaitForSignalPass ==
    /\ sigpc = "loop"
    /\ LET exists == sigFile # Absent
           n == IF exists THEN sigFile ELSE sigMatches
           found == exists /\ sigErrorExpr /\ sigErrorLine
           err == waitForSignal_onError(outcome, outcomeReason, defaultAbortOnError,
                                        sigAbortOnError)
       IN  /\ sigMatches' = n
           /\ sigExisted' = (sigExisted \/ exists)
           /\ IF exists /\ evalCondition(n, sigCondition)
              THEN /\ sigpc' = "returned"
                   /\ UNCHANGED <<sigClock, raised, outcome, outcomeReason, reasons>>
              ELSE IF found
              \* 460-461: the outcome is added, and the call returns unless that aborts
              THEN /\ outcome' = err.outcome
                   /\ outcomeReason' = err.outcomeReason
                   /\ reasons' = Append(reasons, errorFoundDuringWait)
                   /\ raised' = err.raised
                   /\ sigpc' = IF err.raised = NoExc THEN "returned" ELSE "aborted"
                   /\ UNCHANGED sigClock
              ELSE IF sigClock > sigTimeout
              THEN IF sigAborts
                   THEN /\ sigpc' = "aborted"
                        /\ raised' = abort(TIMEDOUT, "timed out")
                        /\ UNCHANGED <<sigClock, outcome, outcomeReason, reasons>>
                   ELSE /\ sigpc' = "returned"
                        /\ UNCHANGED <<sigClock, raised, outcome, outcomeReason, reasons>>
              ELSE /\ sigClock' = sigClock + 1
                   /\ UNCHANGED <<sigpc, raised, outcome, outcomeReason, reasons>>
    /\ UNCHANGED <<defaultAbortOnError, allocVars,
                   processVars, containerVars, runnerVars, perfVars, exceptSignalVars,
                   sigCondition, sigTimeout, sigAbortOnError, sigFile, sigErrorExpr,
                   sigErrorLine>>

\* the process under test creates the file or writes a matching line to it
FileGrows ==
    /\ sigpc = "loop"
    /\ sigFile < MaxMatches
    /\ sigFile' = sigFile + 1
    /\ UNCHANGED <<outcomeVars, allocVars, processVars, containerVars, runnerVars, perfVars,
                   exceptSignalVars, sigpc, sigCondition, sigTimeout, sigAbortOnError, sigMatches,
                   sigClock, sigExisted, sigErrorExpr, sigErrorLine>>

\* the process under test writes a line that matches an errorExpr to the file
ErrorLineWritten ==
    /\ sigpc = "loop"
    /\ sigFile # Absent
    /\ ~sigErrorLine
    /\ sigErrorLine' = TRUE
    /\ UNCHANGED <<outcomeVars, allocVars, processVars, containerVars, runnerVars, perfVars,
                   exceptSignalVars, sigpc, sigCondition, sigTimeout, sigAbortOnError, sigFile,
                   sigMatches, sigClock, sigExisted, sigErrorExpr>>

InitSignal ==
    /\ InitOutcomeVars
    /\ InitAllocVars
    /\ InitProcessVars
    /\ defaultIgnoreExitStatus = TRUE
    /\ IdleContainerVars
    /\ IdleRunnerVars
    /\ InitPerfVars
    /\ IdlePurgeVars
    /\ InitSignalVars
    /\ IdleAggVars
    /\ IdleCsvVars
    /\ IdleRecVars
    /\ IdleDirVars
    /\ IdleLoadVars

NextSignal ==
    \/ WaitForSignalPass
    \/ FileGrows
    \/ ErrorLineWritten

SpecSignal == InitSignal /\ [][NextSignal]_vars

(***************************************************************************)
(* C23: waitForSignal with the condition "==0" on a file that does not     *)
(* exist returns no match after one poll interval at most, or at least     *)
(* before the timeout has elapsed, and adds no outcome and raises no abort.*)
(***************************************************************************)
C23_AbsentFileReturnsAtOnce ==
    (sigpc \in {"returned", "aborted"} /\ sigCondition = "==0" /\ ~sigExisted) =>
        /\ sigpc = "returned"
        /\ sigMatches = 0
        /\ sigClock <= 1 \/ sigClock <= sigTimeout
        /\ outcome = <<>>
        /\ raised = NoExc

(***************************************************************************)
(* C33: a pass of waitForSignal that finds the file, the condition not met *)
(* and a line matching an errorExpr appends BLOCKED once, with a reason    *)
(* that names the error, and returns the matches of that pass without      *)
(* another pass; a pass that finds the condition met returns and adds no   *)
(* outcome, although a line matches an errorExpr.                          *)
(***************************************************************************)
errorPass == WaitForSignalPass /\ sigFile # Absent /\ sigErrorExpr /\ sigErrorLine

conditionMetPass ==
    errorPass /\ evalCondition(sigFile, sigCondition) =>
        (sigpc' = "returned" /\ sigMatches' = sigFile /\ outcome' = outcome /\ raised' = NoExc)

blockedOnce ==
    /\ outcome' = Append(outcome, BLOCKED)
    /\ outcomeReason' = errorFoundDuringWait
    /\ sigMatches' = sigFile
    /\ sigClock' = sigClock

C33_ErrorExprBlocksAndReturns ==
    [][/\ conditionMetPass
       /\ errorPass /\ ~evalCondition(sigFile, sigCondition) =>
              (blockedOnce /\ sigpc' = "returned" /\ raised' = NoExc)]_vars

\* C33 as the code has it: with abortOnError in effect the BLOCKED outcome is
\* raised as an abort, and waitForSignal returns only without it
C33_ErrorExprBlocksThenReturnsOrAborts ==
    [][/\ conditionMetPass
       /\ errorPass /\ ~evalCondition(sigFile, sigCondition) =>
              /\ blockedOnce
              /\ IF sigAborts
                 THEN sigpc' = "aborted" /\ raised' = abort(BLOCKED, errorFoundDuringWait)
                 ELSE sigpc' = "returned" /\ raised' = NoExc]_vars

\* after a pass that found nothing, a pass found the error line: BLOCKED is the only
\* outcome and the call has returned
C33_Witness ==
    /\ sigpc = "returned"
    /\ sigErrorExpr /\ sigErrorLine /\ sigFile # Absent
    /\ ~evalCondition(sigMatches, sigCondition)
    /\ sigClock >= 1
    /\ outcome = <<BLOCKED>> /\ outcomeReason = errorFoundDuringWait

(***************************************************************************)
(* CSVPerformanceFile.aggregate (perfreporter.py 364-412). The numbers are *)
(* rationals: the value column, and the square of the stdDev column, whose *)
(* root the code takes at 388 and squares again at 389-390.                *)
(***************************************************************************)
\* the mean of the values of the two rows
combinedmean_unweighted(e, r) == qdiv(qadd(e.value, r.value), qint(2))

\* aggregate 385: the mean of the values, weighted with the samples
combinedmean(e, r) ==
    qdiv(qadd(qmul(e.value, qint(e.samples)), qmul(r.value, qint(r.samples))),
         qint(e.samples + r.samples))

qsquare(x) == qmul(x, x)

\* aggregate 382-397: merge the row r into the existing row e of its key
mergeResult(e, r) ==
    LET mean == combinedmean(e, r)
    IN  [e EXCEPT
           !.stdDev2 =
               qdiv(qadd(qadd(qmul(qint(e.samples - 1), e.stdDev2),
                              qmul(qint(r.samples - 1), r.stdDev2)),
                         qadd(qmul(qint(e.samples), qsquare(qsub(e.value, mean))),
                              qmul(qint(r.samples), qsquare(qsub(r.value, mean))))),
                    qint(e.samples + r.samples - 1)),
           !.value = mean,
           !.samples = e.samples + r.samples,
           !.resultDetails = r.resultDetails]

\* aggregate 376-397: the rows of one file
RECURSIVE aggregate_rows(_, _)
aggregate_rows(dict, rs) ==
    IF rs = <<>> THEN dict
    ELSE LET r == Head(rs)
             key == r.resultKey
         IN  aggregate_rows(IF key \in DOMAIN dict
                            THEN dict_set(dict, key, mergeResult(dict[key], r))
                            ELSE dict_set(dict, key, r),
                            Tail(rs))

\* the run details of the files are not collected
aggregate_detail_dropped(details, kv) == details

\* aggregate 399-403: one run detail of a file joins the unique values of its key
aggregate_detail(details, kv) ==
    IF \E i \in 1..Len(details) : details[i][1] = kv[1]
    THEN [i \in 1..Len(details) |->
             IF details[i][1] = kv[1] /\ kv[2] \notin Range(details[i][2])
             THEN <<details[i][1], Append(details[i][2], kv[2])>>
             ELSE details[i]]
    ELSE Append(details, <<kv[1], <<kv[2]>> >>)

RECURSIVE aggregate_details(_, _)
aggregate_details(details, runDetails) ==
    IF runDetails = <<>> THEN details
    ELSE aggregate_details(aggregate_detail(details, Head(runDetails)), Tail(runDetails))

\* aggregate 374-403: the loop over the files; a file without rows is passed over
RECURSIVE aggregate_files(_, _)
aggregate_files(acc, files) ==
    IF files = <<>> THEN acc
    ELSE LET f == Head(files)
         IN  aggregate_files(IF f.results = <<>> THEN acc
                             ELSE [results |-> aggregate_rows(acc.results, f.results),
                                   details |-> aggregate_details(acc.details, f.runDetails)],
                             Tail(files))

\* '; '.join(sorted(values)) for values of one word each
RECURSIVE join(_)
join(values) ==
    IF values = <<>> THEN <<>>
    ELSE IF Len(values) = 1 THEN Head(values)
    ELSE Head(values) \o <<"; ">> \o join(Tail(values))

sortedValues(values) ==
    LET words == SelectSeq(SortedDetailValues, LAMBDA w : <<w>> \in Range(values))
    IN  [i \in 1..Len(words) |-> <<words[i]>>]

\* CSVPerformanceFile.aggregate
aggregate(files) ==
    LET acc == aggregate_files([results |-> [k \in {} |-> 0], details |-> <<>>], files)
        keys == SelectSeq(SortedKeys, LAMBDA k : k \in DOMAIN acc.results)
    IN  PerfFile([i \in 1..Len(acc.details) |->
                     <<acc.details[i][1], join(sortedValues(acc.details[i][2]))>>],
                 [i \in 1..Len(keys) |-> acc.results[keys[i]]])

Aggregate ==
    /\ ~aggDone
    /\ aggregated' = aggregate(aggFiles)
    /\ aggDone' = TRUE
    /\ UNCHANGED <<outcomeVars, allocVars, processVars, containerVars, runnerVars, perfVars,
                   exceptAggVars, aggFiles>>

\* files without run details, as many as MaxFiles
InitAggregate ==
    /\ InitOutcomeVars
    /\ InitAllocVars
    /\ InitProcessVars
    /\ defaultAbortOnError = FALSE
    /\ defaultIgnoreExitStatus = TRUE
    /\ IdleContainerVars
    /\ IdleRunnerVars
    /\ InitPerfVars
    /\ IdlePurgeVars
    /\ IdleSignalVars
    /\ IdleCsvVars
    /\ IdleRecVars
    /\ IdleDirVars
    /\ IdleLoadVars
    /\ aggFiles \in SeqsUpTo({PerfFile(<<>>, rs) : rs \in PerfResults}, MaxFiles) \ {<<>>}
    /\ aggregated = PerfFile(<<>>, <<>>)
    /\ aggDone = FALSE

SpecAggregate == InitAggregate /\ [][Aggregate]_vars

\* every input row of the key
RECURSIVE inputRows(_, _)
inputRows(files, key) ==
    IF files = <<>> THEN <<>>
    ELSE SelectSeq(Head(files).results, LAMBDA r : r.resultKey = key)
         \o inputRows(Tail(files), key)

RECURSIVE sumSamples(_)
sumSamples(rs) == IF rs = <<>> THEN 0 ELSE Head(rs).samples + sumSamples(Tail(rs))

RECURSIVE sumValues(_)
sumValues(rs) ==
    IF rs = <<>> THEN qint(0)
    ELSE qadd(qmul(Head(rs).value, qint(Head(rs).samples)), sumValues(Tail(rs)))

outputRows(file, key) == SelectSeq(file.results, LAMBDA r : r.resultKey = key)

\* the numbers of the rows of a file
numbers(file) ==
    [i \in 1..Len(file.results) |->
        [resultKey |-> file.results[i].resultKey, value |-> file.results[i].value,
         samples |-> file.results[i].samples, stdDev2 |-> file.results[i].stdDev2]]

(***************************************************************************)
(* C24: aggregate yields exactly one row for each resultKey of its input   *)
(* rows; its samples is the sum of their samples and its value their       *)
(* sample-weighted mean; two rows of one sample each with the values v1    *)
(* and v2 give samples 2, the value (v1+v2)/2 and 2*stdDev^2 = (v1-v2)^2;  *)
(* and two files give the same numbers in either order.                    *)
(***************************************************************************)
C24_AggregateMergesRowsOfAKey ==
    aggDone =>
        /\ \A key \in Range(SortedKeys) :
              LET ins == inputRows(aggFiles, key)
                  outs == outputRows(aggregated, key)
              IN  IF ins = <<>> THEN outs = <<>>
                  ELSE /\ Len(outs) = 1
                       /\ outs[1].samples = sumSamples(ins)
                       /\ qmul(outs[1].value, qint(sumSamples(ins))) = sumValues(ins)
                       /\ (Len(ins) = 2 /\ ins[1].samples = 1 /\ ins[2].samples = 1) =>
                              /\ outs[1].samples = 2
                              /\ outs[1].value = qdiv(qadd(ins[1].value, ins[2].value), qint(2))
                              /\ qmul(qint(2), outs[1].stdDev2)
                                    = qsquare(qsub(ins[1].value, ins[2].value))
        /\ Len(aggFiles) = 2 =>
              numbers(aggregate(<<aggFiles[2], aggFiles[1]>>)) = numbers(aggregated)

\* the values 10 and 20 of one key in two files gave the value 15, 2 samples and
\* the stdDev 7.0711 (whose square is 50)
C24_Witness ==
    /\ aggDone
    /\ Len(aggFiles) = 2
    /\ aggFiles[1].results = <<PerfRow("k", 10, 1, 0, <<>>)>>
    /\ aggFiles[2].results = <<PerfRow("k", 20, 1, 0, <<>>)>>
    /\ aggregated.results = <<PerfRow("k", 15, 2, 50, <<>>)>>

\* one file with or without run details
InitAggregateOne ==
    /\ InitOutcomeVars
    /\ InitAllocVars
    /\ InitProcessVars
    /\ defaultAbortOnError = FALSE
    /\ defaultIgnoreExitStatus = TRUE
    /\ IdleContainerVars
    /\ IdleRunnerVars
    /\ InitPerfVars
    /\ IdlePurgeVars
    /\ IdleSignalVars
    /\ IdleCsvVars
    /\ IdleRecVars
    /\ IdleDirVars
    /\ IdleLoadVars
    /\ aggFiles \in {<<PerfFile(rd, rs)>> : rd \in PerfRunDetails, rs \in PerfResults}
    /\ aggregated = PerfFile(<<>>, <<>>)
    /\ aggDone = FALSE

SpecAggregateOne == InitAggregateOne /\ [][Aggregate]_vars

\* a row with its resultDetails as a set of fields
unorderedRow(r) == [r EXCEPT !.resultDetails = Range(r.resultDetails)]

unorderedRows(rs) == [i \in 1..Len(rs) |-> unorderedRow(rs[i])]

\* the rows in the order of their keys
sortedByKey(rs) ==
    LET keys == SelectSeq(SortedKeys, LAMBDA k : \E i \in 1..Len(rs) : rs[i].resultKey = k)
    IN  [i \in 1..Len(keys) |-> CHOOSE r \in Range(rs) : r.resultKey = keys[i]]

distinctKeys(rs) ==
    \A i, j \in 1..Len(rs) : rs[i].resultKey = rs[j].resultKey => i = j

(***************************************************************************)
(* C25 as stated: aggregate([f]) has the runDetails of f and the rows of   *)
(* f, whatever the order of the fields of their resultDetails and of the   *)
(* rows.                                                                   *)
(***************************************************************************)
C25_AggregateOfOneFileIsTheFile ==
    (aggDone /\ Len(aggFiles) = 1) =>
        /\ aggregated.runDetails = aggFiles[1].runDetails
        /\ Len(aggregated.results) = Len(aggFiles[1].results)
        /\ Range(unorderedRows(aggregated.results)) = Range(unorderedRows(aggFiles[1].results))

(***************************************************************************)
(* C25 amended: for a file f that has at least one row and no two rows of  *)
(* the same resultKey, aggregate([f]) has the runDetails of f and the rows *)
(* of f in the order of their resultKeys.                                  *)
(***************************************************************************)
C25_AggregateOfOneFileWithDistinctKeys ==
    (aggDone /\ Len(aggFiles) = 1 /\ aggFiles[1].results # <<>>
       /\ distinctKeys(aggFiles[1].results)) =>
        /\ aggregated.runDetails = aggFiles[1].runDetails
        /\ unorderedRows(aggregated.results) = unorderedRows(sortedByKey(aggFiles[1].results))

\* a file with run details and the rows of k and j came back with the rows of j and k
C25_Witness ==
    /\ aggDone
    /\ Len(aggFiles) = 1
    /\ aggFiles[1].runDetails = << <<"outDir", <<"linux">> >> >>
    /\ aggFiles[1].results = <<PerfRow("k", 10, 1, 0, <<>>), PerfRow("j", 20, 1, 0, <<>>)>>
    /\ aggregated.runDetails = << <<"outDir", <<"linux">> >> >>
    /\ aggregated.results = <<PerfRow("j", 20, 1, 0, <<>>), PerfRow("k", 10, 1, 0, <<>>)>>

(***************************************************************************)
(* CSVPerformanceFile: the parser (perfreporter.py 294-350) and toCSVLine  *)
(* (263-292). A line is the list of its comma separated fields, floats are *)
(* counted in tenths.                                                      *)
(***************************************************************************)
COLUMNS ==
    <<"resultKey", "testId", "value", "unit", "biggerIsBetter", "toleranceStdDevs",
      "samples", "stdDev">>

RUN_DETAILS == "#runDetails:#"

RESULT_DETAILS == "#resultDetails:#"

\* float(val or '0')
float(val) ==
    CASE val \in {"", "0", "0.0"} -> 0
      [] val \in {"10", "10.0"} -> 100
      [] val = "1.5" -> 15

\* int(val or '0')
int(val) == CASE val \in {"", "0"} -> 0 [] val = "1" -> 1 [] val = "2" -> 2

\* val.lower()
lower(val) ==
    CASE val \in {"TRUE", "True"} -> "true"
      [] val \in {"FALSE", "False"} -> "false"
      [] OTHER -> val

\* str() of a float, an int and a bool
str_float(x) == CASE x = 0 -> "0.0" [] x = 100 -> "10.0" [] x = 15 -> "1.5"

str_int(n) == CASE n = 0 -> "0" [] n = 1 -> "1" [] n = 2 -> "2"

str_bool(b) == IF b THEN "True" ELSE "False"

\* __init__ 326-333: the value of a column
parseColumn(name, val) ==
    CASE name \in {"value", "toleranceStdDevs", "stdDev"} -> float(val)
      [] name = "samples" -> int(val)
      [] name = "biggerIsBetter" -> (lower(val) = "true")
      [] OTHER -> val

\* toCSVLine 283: str(values.get(k, ''))
str(name, val) ==
    CASE name \in {"value", "toleranceStdDevs", "stdDev"} -> str_float(val)
      [] name = "samples" -> str_int(val)
      [] name = "biggerIsBetter" -> str_bool(val)
      [] OTHER -> val

\* h.strip('#').strip() of a header field
stripHash(h) == CASE h = "# resultKey" -> "resultKey" [] OTHER -> h

\* s.replace('=', '-')
replaceEquals(t) == CASE t = "a=b" -> "a-b" [] OTHER -> t

\* v.replace(',', ';').replace('"', '_').strip()
sanitize(t) == CASE t = "a,b" -> "a;b" [] t = "a\"b" -> "a_b" [] OTHER -> strip(t)

\* the position of the sentinel in a line, or one past its end
sentinelAt(line, sentinel) ==
    IF \E i \in 1..Len(line) : line[i] = Field("", sentinel)
    THEN CHOOSE i \in 1..Len(line) :
             /\ line[i] = Field("", sentinel)
             /\ \A j \in 1..(i - 1) : line[j] # Field("", sentinel)
    ELSE Len(line) + 1

\* __init__ 310-314 and 335-342: the fields after the sentinel, split at their first '='
parseDetails(line, sentinel) ==
    LET at == sentinelAt(line, sentinel)
    IN  [i \in 1..(Len(line) - at) |-> <<line[at + i].k, line[at + i].v>>]

\* __init__ 305-317: the names of the columns of the header line
parseHeader(line) ==
    LET at == sentinelAt(line, RUN_DETAILS)
    IN  [i \in 1..(at - 1) |-> stripHash(line[i].v)]

\* __init__ 320-346: a row
parseRow(header, row) ==
    [columns |-> [name \in Range(header) |->
                     parseColumn(name, row[CHOOSE i \in 1..Len(header) : header[i] = name].v)],
     resultDetails |-> parseDetails(row, RESULT_DETAILS)]

\* toCSVLine 272-275: a dict of the list is expanded to its 'k=v' entries
expandDict(d) ==
    [i \in 1..Len(d) |-> Field(strip(replaceEquals(d[i][1])), strip(replaceEquals(d[i][2])))]

\* toCSVLine 279: every item is sanitized
sanitizeItems(items) ==
    [i \in 1..Len(items) |-> Field(sanitize(items[i].k), sanitize(items[i].v))]

\* toCSVLine(values) for a dict: the columns, then the sentinel, the resultDetails dict
\* and its 'k=v' entries, all handed to toCSVLine for a list
toCSVLine_dict(result) ==
    LET l == [i \in 1..Len(COLUMNS) |->
                 Field("", IF COLUMNS[i] \in DOMAIN result.columns
                           THEN str(COLUMNS[i], result.columns[COLUMNS[i]]) ELSE "")]
        details == result.resultDetails
    IN  sanitizeItems(
            IF details = <<>> THEN l
            ELSE l \o <<Field("", RESULT_DETAILS)>> \o expandDict(details)
                   \o [i \in 1..Len(details) |-> Field(details[i][1], details[i][2])])

\* getRunHeader 203-205: '# ' + toCSVLine(COLUMNS + [RUN_DETAILS, runDetails])
getRunHeader(runDetails) ==
    LET line == sanitizeItems([i \in 1..Len(COLUMNS) |-> Field("", COLUMNS[i])]
                              \o <<Field("", RUN_DETAILS)>> \o expandDict(runDetails))
    IN  [line EXCEPT ![1] = Field("", "# resultKey")]

\* the header lines and the rows of the files that are parsed
CsvHeaders ==
    {[i \in 1..Len(COLUMNS) |-> Field("", IF i = 1 THEN "# resultKey" ELSE COLUMNS[i])]
       \o <<Field("", RUN_DETAILS)>> \o d :
         d \in {<<>>, <<Field("outDir", "linux")>>, <<Field("time", "a=b")>>}}

CsvRows ==
    {<<Field("", "k"), Field("", "Test_001"), Field("", v), Field("", "s"), Field("", b),
       Field("", t), Field("", n), Field("", sd)>> \o d :
         v \in {"10", "10.0"}, b \in {"TRUE", "True", "FALSE"}, t \in {"", "1.5"},
         n \in {"1", "2"}, sd \in {"0", "0.0"},
         d \in {<<>>, <<Field("", RESULT_DETAILS), Field("mode", "fast")>>}}

\* CSVPerformanceFile(contents)
ParseCsv ==
    /\ csvpc = "idle"
    /\ csvParsed' = [runDetails |-> parseDetails(csvInput.header, RUN_DETAILS),
                     result |-> parseRow(parseHeader(csvInput.header), csvInput.row)]
    /\ csvpc' = "parsed"
    /\ UNCHANGED <<outcomeVars, allocVars, processVars, containerVars, runnerVars, perfVars,
                   exceptCsvVars, csvInput, csvOutput>>

\* the header and the row of the parsed file are written again
EmitCsv ==
    /\ csvpc = "parsed"
    /\ csvOutput' = [header |-> getRunHeader(csvParsed.runDetails),
                     row |-> toCSVLine_dict(csvParsed.result)]
    /\ csvpc' = "emitted"
    /\ UNCHANGED <<outcomeVars, allocVars, processVars, containerVars, runnerVars, perfVars,
                   exceptCsvVars, csvInput, csvParsed>>

InitCsv ==
    /\ InitOutcomeVars
    /\ InitAllocVars
    /\ InitProcessVars
    /\ defaultAbortOnError = FALSE
    /\ defaultIgnoreExitStatus = TRUE
    /\ IdleContainerVars
    /\ IdleRunnerVars
    /\ InitPerfVars
    /\ IdlePurgeVars
    /\ IdleSignalVars
    /\ IdleAggVars
    /\ IdleRecVars
    /\ IdleDirVars
    /\ IdleLoadVars
    /\ csvpc = "idle"
    /\ csvInput \in {[header |-> h, row |-> r] : h \in CsvHeaders, r \in CsvRows}
    /\ csvParsed = NoCsvFile
    /\ csvOutput = NoCsv

NextCsv ==
    \/ ParseCsv
    \/ EmitCsv

SpecCsv == InitCsv /\ [][NextCsv]_vars

(***************************************************************************)
(* C26: a file without ',' and '"' in its fields that is parsed and        *)
(* written again with toCSVLine comes back as it was: the same header line *)
(* with the same run details and the same row with the same column values  *)
(* and result details.                                                     *)
(***************************************************************************)
C26_ParseThenEmitIsIdentity ==
    csvpc = "emitted" => csvOutput = csvInput

(***************************************************************************)
(* reportResult and recordResult (perfreporter.py 121-176, 226-244) called *)
(* by the worker threads of the run, one test object per thread. The       *)
(* statements under self._lock are separate steps, so that the threads     *)
(* interleave wherever the lock lets them.                                 *)
(***************************************************************************)
\* the lock is taken without looking at its holder
acquire_unlocked(holder, t) == TRUE

\* threading.RLock.acquire: free, or held by the calling thread
acquire(holder, t) == holder \in {0, t}

HeaderLine == [header |-> TRUE, resultKey |-> "", obj |-> 0]

RowLine(t, key) == [header |-> FALSE, resultKey |-> key, obj |-> t]

\* reportResult 128-174: the checks of the key, under the lock the entry of the key in
\* the dict, then the outcome of the test; an accepted result goes on to recordResult
ReportKeys(t, resultKey) ==
    /\ t \in 1..nextTest
    /\ perfTests[t].live
    /\ recpc[t] = "idle"
    /\ lastReport.n < MaxReports
    /\ acquire(recLock, t)
    /\ LET test == perfTests[t]
           key == strip(resultKey)
           r == reportResult(previousResultKeys, test, resultKey, <<>>, defaultAbortOnError)
       IN  /\ previousResultKeys' = r.previousResultKeys
           /\ perfTests' = [perfTests EXCEPT
                               ![t].outcome = r.res.outcome,
                               ![t].outcomeReason = r.res.outcomeReason,
                               ![t].reported = IF validKey(key) THEN @ \cup {key} ELSE @]
           /\ raised' = r.res.raised
           /\ lastReport' = [lastReport EXCEPT !.n = @ + 1]
           /\ recpc' = [recpc EXCEPT ![t] = IF r.wrote THEN "record" ELSE "idle"]
           /\ recKey' = [recKey EXCEPT ![t] = IF r.wrote THEN key ELSE @]
           /\ recAccepted' = IF r.wrote THEN Append(recAccepted, <<t, key>>) ELSE recAccepted
    /\ UNCHANGED <<outcome, outcomeReason, defaultAbortOnError, reasons, allocVars,
                   processVars, containerVars, runnerVars, nextTest, rows, keyOwner,
                   exceptRecVars, recLock, alreadyexists, summaryExists, summaryFile>>

\* recordResult 228-237: the file in the output directory of the test, and the
\* directory of the summary file
RecordTestFile(t) ==
    /\ recpc[t] = "record"
    /\ recpc' = [recpc EXCEPT ![t] = "summary"]
    /\ UNCHANGED <<outcomeVars, allocVars, processVars, containerVars, runnerVars, perfVars,
                   exceptRecVars, recLock, recKey, alreadyexists, summaryExists, summaryFile,
                   recAccepted>>

\* recordResult 238-239: with self._lock: alreadyexists = os.path.exists(path)
RecordAcquire(t) ==
    /\ recpc[t] = "summary"
    /\ acquire(recLock, t)
    /\ recLock' = t
    /\ alreadyexists' = [alreadyexists EXCEPT ![t] = summaryExists]
    /\ recpc' = [recpc EXCEPT ![t] = "open"]
    /\ UNCHANGED <<outcomeVars, allocVars, processVars, containerVars, runnerVars, perfVars,
                   exceptRecVars, recKey, summaryExists, summaryFile, recAccepted>>

\* recordResult 240-243: open(path, 'a') creates the file; the header is written to a
\* file that did not exist
RecordOpen(t) ==
    /\ recpc[t] = "open"
    /\ summaryExists' = TRUE
    /\ summaryFile' = IF alreadyexists[t] THEN summaryFile ELSE Append(summaryFile, HeaderLine)
    /\ recpc' = [recpc EXCEPT ![t] = "row"]
    /\ UNCHANGED <<outcomeVars, allocVars, processVars, containerVars, runnerVars, perfVars,
                   exceptRecVars, recLock, recKey, alreadyexists, recAccepted>>

\* recordResult 244: the row is written, the file closed and the lock released
RecordRow(t) ==
    /\ recpc[t] = "row"
    /\ summaryFile' = Append(summaryFile, RowLine(t, recKey[t]))
    /\ recLock' = IF recLock = t THEN 0 ELSE recLock
    /\ recpc' = [recpc EXCEPT ![t] = "idle"]
    /\ UNCHANGED <<outcomeVars, allocVars, processVars, containerVars, runnerVars, perfVars,
                   exceptRecVars, recKey, alreadyexists, summaryExists, recAccepted>>

InitRecord ==
    /\ InitOutcomeVars
    /\ InitAllocVars
    /\ InitProcessVars
    /\ defaultIgnoreExitStatus = TRUE
    /\ IdleContainerVars
    /\ IdleRunnerVars
    /\ InitPerfVars
    /\ IdlePurgeVars
    /\ IdleSignalVars
    /\ IdleAggVars
    /\ IdleCsvVars
    /\ IdleRecVars
    /\ IdleDirVars
    /\ IdleLoadVars

NextRecord ==
    \/ \E id \in TestIds, addr \in Addresses : NewTestObject(id, addr)
    \/ \E t \in 1..MaxTests : TestObjectFails(t)
    \/ \E t \in 1..MaxTests, k \in ResultKeys : ReportKeys(t, k)
    \/ \E t \in 1..MaxTests : RecordTestFile(t)
    \/ \E t \in 1..MaxTests : RecordAcquire(t)
    \/ \E t \in 1..MaxTests : RecordOpen(t)
    \/ \E t \in 1..MaxTests : RecordRow(t)

SpecRecord == InitRecord /\ [][NextRecord]_vars

\* how many rows of the summary file the test object wrote for the key
rowCount(t, key) ==
    Cardinality({i \in 1..Len(summaryFile) : summaryFile[i] = RowLine(t, key)})

\* how many results of the test object with the key were handed to recordResult
acceptedCount(t, key) ==
    Cardinality({i \in 1..Len(recAccepted) : recAccepted[i] = <<t, key>>})

(***************************************************************************)
(* C27: however the reportResult calls of the worker threads interleave,   *)
(* the summary file has one header line, which is its first line, and for  *)
(* every result that was accepted from a test that has not failed one row, *)
(* once its recordResult call has returned, and no other row.              *)
(***************************************************************************)
C27_OneHeaderThenOneRowPerResult ==
    /\ summaryFile # <<>> =>
          /\ summaryFile[1] = HeaderLine
          /\ \A i \in 2..Len(summaryFile) : ~summaryFile[i].header
    /\ \A t \in 1..MaxTests, key \in {strip(k) : k \in ResultKeys} :
          rowCount(t, key) = IF recpc[t] # "idle" /\ recKey[t] = key
                             THEN acceptedCount(t, key) - 1
                             ELSE acceptedCount(t, key)

\* the thread of test object 2 wrote the header and holds the lock to write its row,
\* while the thread of test object 1 waits for the lock with an accepted result
C27_Witness ==
    /\ recLock = 2
    /\ recpc[2] = "row"
    /\ recpc[1] = "summary"
    /\ summaryFile = <<HeaderLine>>
    /\ Len(recAccepted) = 2

(***************************************************************************)
(* The output subdirectories of the containers of a run of several cycles  *)
(* (TestContainer.__call__, baserunner.py 425-437, called from the loops   *)
(* of start, 229-247). The directories may hold what an earlier run left.  *)
(***************************************************************************)
\* where a KeyboardInterrupt reaches the first try block of __call__
InterruptPoints == {"none", "start", "purged"}

\* purgeDirectory 531-551: everything in the directory is removed
purgeDirectory(dirs) == [dirs EXCEPT !.cycles = [n \in 1..MaxCycles |-> "absent"]]

\* __call__ 425-437: the directories after the first try block, self.outsubdir as the
\* number of its cycle directory (0: still ""), and whether os.makedirs raised
outsubdirBlock(dirs, cyc, runCycles, at) ==
    LET made == [dirs EXCEPT !.top = TRUE]
        purged == IF cyc = 0 THEN purgeDirectory(made) ELSE made
        n == cyc + 1
    IN  IF at = "start" THEN [dirs |-> dirs, outsubdir |-> 0, raised |-> FALSE]
        ELSE IF at = "purged" THEN [dirs |-> purged, outsubdir |-> 0, raised |-> FALSE]
        ELSE IF runCycles > 1 /\ purged.cycles[n] # "absent"
        THEN [dirs |-> purged, outsubdir |-> 0, raised |-> TRUE]
        ELSE [dirs |-> [purged EXCEPT !.cycles[n] = "made"], outsubdir |-> n, raised |-> FALSE]

\* start 236-246: the container of the next descriptor is called; the test of a
\* container that is neither interrupted nor blocked runs and writes its output; after
\* an interrupted container handleKbrdInt asks whether to continue
Container(at, answer) ==
    /\ ~dirEnded
    /\ dirCycle < dirRun
    /\ LET d == dirCounter + 1
           b == outsubdirBlock(outputDirs[d], dirCycle, dirRun, at)
           ran == at = "none" /\ ~b.raised
           last == d = MaxDescriptors
       IN  /\ outputDirs' = [outputDirs EXCEPT ![d] =
                                 IF ran THEN [b.dirs EXCEPT !.cycles[b.outsubdir] = "used"]
                                 ELSE b.dirs]
           /\ dirLast' = [descriptor |-> d, cycle |-> dirCycle, outsubdir |-> b.outsubdir,
                          interrupted |-> at # "none", blocked |-> b.raised,
                          purgedOwn |-> /\ dirCycle = 0
                                        /\ at # "start"
                                        /\ \E n \in 1..MaxCycles :
                                               outputDirs[d].cycles[n] \in {"made", "used"}]
           /\ dirEnded' = \/ at # "none" /\ answer = "no"
                          \/ last /\ dirCycle + 1 = dirRun
           /\ dirCounter' = IF last THEN 0 ELSE d
           /\ dirCycle' = IF last THEN dirCycle + 1 ELSE dirCycle
    /\ UNCHANGED <<outcomeVars, allocVars, processVars, containerVars, runnerVars, perfVars,
                   exceptDirVars, dirRun>>

\* a run of two cycles or more, in directories that an earlier run may have used
InitDirs ==
    /\ InitOutcomeVars
    /\ InitAllocVars
    /\ InitProcessVars
    /\ defaultAbortOnError = FALSE
    /\ defaultIgnoreExitStatus = TRUE
    /\ IdleContainerVars
    /\ IdleRunnerVars
    /\ InitPerfVars
    /\ IdlePurgeVars
    /\ IdleSignalVars
    /\ IdleAggVars
    /\ IdleCsvVars
    /\ IdleRecVars
    /\ IdleLoadVars
    /\ dirRun \in 2..MaxCycles
    /\ dirCycle = 0
    /\ dirCounter = 0
    /\ dirEnded = FALSE
    /\ outputDirs \in [1..MaxDescriptors ->
                          {NoDirs} \cup {[top |-> TRUE, cycles |-> c] :
                                            c \in [1..MaxCycles -> {"absent", "stale"}]}]
    /\ dirLast = NoCall

NextDirs ==
    \E at \in InterruptPoints, answer \in {"yes", "no"} : Container(at, answer)

SpecDirs == InitDirs /\ [][NextDirs]_vars

(***************************************************************************)
(* C28: in a run of more than one cycle a container that is not itself     *)
(* interrupted runs in the directory cycle<N> of its descriptor, N being   *)
(* its cycle counted from 1; the directory exists, made by this run,       *)
(* before the test runs; and the purge of the first cycle removes no       *)
(* directory that a cycle of this run has made.                            *)
(***************************************************************************)
C28_ContainerRunsInItsCycleDirectory ==
    (dirLast.descriptor # 0 /\ ~dirLast.interrupted) =>
        /\ dirLast.outsubdir = dirLast.cycle + 1
        /\ outputDirs[dirLast.descriptor].cycles[dirLast.cycle + 1] \in {"made", "used"}
        /\ ~dirLast.purgedOwn

(***************************************************************************)
(* ProcessUser.signalProcess (user.py 216-238), and the stop and signal    *)
(* requests of an actor whose processes were started in the background.    *)
(***************************************************************************)
\* ProcessWrapper.signal: a signal request that fails raises ProcessError
ProcessWrapper_signal(running, fails) ==
    IF running /\ fails THEN [running |-> TRUE, exc |-> "ProcessError"]
    ELSE [running |-> running, exc |-> "none"]

\* ProcessUser.signalProcess
SignalProcess(p, abortOnError, fails) ==
    /\ p \in 1..nextProc
    /\ LET aoe == IF abortOnError = None THEN defaultAbortOnError ELSE abortOnError = "True"
           st == ProcessWrapper_signal(procs[p].running, fails)
       IN  /\ raised' = IF st.exc = "ProcessError" /\ aoe
                         THEN abort(BLOCKED, "Unable to signal process")
                         ELSE NoExc
           /\ lastOp' = [op |-> "signalProcess", proc |-> p,
                          env |-> IF st.exc = "ProcessError" THEN "error" ELSE "",
                          listed |-> {}]
    /\ UNCHANGED <<outcome, outcomeReason, defaultAbortOnError, reasons, allocVars, engineVars,
                   procs, nextProc, processList, processCount, cleanupFunctions,
                   defaultIgnoreExitStatus, cleanupLog, fnCalls, registrations, timedOut>>

InitRequests ==
    /\ InitOutcomeVars
    /\ InitAllocVars
    /\ InitProcessVars
    /\ defaultIgnoreExitStatus = TRUE
    /\ IdleContainerVars
    /\ IdleRunnerVars
    /\ InitPerfVars
    /\ IdleToolVars

NextRequests ==
    \/ \E n \in Names : StartProcess(BACKGROUND, "spawned", n, None, None)
    \/ \E p \in ProcIds, a \in AbortArgs, fails \in BOOLEAN : StopProcess(p, a, fails)
    \/ \E p \in ProcIds, a \in AbortArgs, fails \in BOOLEAN : SignalProcess(p, a, fails)
    \/ \E p \in ProcIds : ProcessExits(p)

SpecRequests == InitRequests /\ [][NextRequests]_vars

(***************************************************************************)
(* C29: after a stopProcess or signalProcess call whose request failed on  *)
(* a running process, BLOCKED is in the outcome list of the actor or the   *)
(* call has raised the abort that carries BLOCKED; after any other call    *)
(* no outcome was added and nothing was raised.                            *)
(***************************************************************************)
C29_FailedRequestIsBlocked ==
    lastOp.op \in {"stopProcess", "signalProcess"} =>
        IF lastOp.env = "error"
        THEN \/ raised.type = "AbortExecution" /\ raised.outcome = BLOCKED
             \/ raised = NoExc /\ BLOCKED \in Range(outcome)
        ELSE raised = NoExc /\ outcome = <<>>

(***************************************************************************)
(* C30: when the call of a container is over, whichever branch it took     *)
(* (skipped, blocked, interrupted, run, with or without an exception or    *)
(* abort in a phase), cleanup() of the test object was invoked exactly     *)
(* once and the call returned.                                             *)
(***************************************************************************)
C30_CleanupInvokedOnce ==
    cpc = "done" => (cleanupCalls = 1 /\ cresult = "returned")

(***************************************************************************)
(* C32: when the call of a container has ended, by returning or by an      *)
(* exception, its run.log handler is closed and removed from the logger,   *)
(* so no later test logs into this test's run.log.                         *)
(***************************************************************************)
C32_LogSinkClosedAtEnd == cpc = "done" => testFileHandler # "open"

(***************************************************************************)
(* SpecLoad: the load step of TestContainer.__call__ (baserunner.py        *)
(* 453-465) on the workers of the thread pool: each worker calls one       *)
(* container after the other, and every call takes global_lock (47),       *)
(* imports the module and constructs the test object (456-457), falls back *)
(* to a BaseTest placeholder when that raises (461-464) and releases the   *)
(* lock (465). The rest of the call (467-526) is not looked at.            *)
(***************************************************************************)
Workers == 1..MaxThreads

\* threading.Lock.acquire: waits until no thread holds the lock
Lock_acquire(holder) == holder = 0

\* the pool hands the next container to a worker whose last call has ended; the
\* first block of the call (424-451) catches what is raised in it
CallContainer(t) ==
    /\ loadpc[t] \in {"idle", "returned", "raised"}
    /\ loadRuns[t] < MaxDescriptors
    /\ loadpc' = [loadpc EXCEPT ![t] = "acquire"]
    /\ loadRuns' = [loadRuns EXCEPT ![t] = @ + 1]
    /\ UNCHANGED <<outcomeVars, allocVars, processVars, containerVars, runnerVars, perfVars,
                   exceptLoadVars, global_lock>>

\* __call__ 454: global_lock.acquire()
AcquireGlobalLock(t) ==
    /\ loadpc[t] = "acquire"
    /\ Lock_acquire(global_lock)
    /\ global_lock' = t
    /\ loadpc' = [loadpc EXCEPT ![t] = "import"]
    /\ UNCHANGED <<outcomeVars, allocVars, processVars, containerVars, runnerVars, perfVars,
                   exceptLoadVars, loadRuns>>

\* __call__ 455-463: the import and the construction of the test object; a keyboard
\* interrupt is caught and flagged, any other exception leads to the placeholder
LoadTestClass(t, ev) ==
    /\ loadpc[t] = "import"
    /\ loadpc' = [loadpc EXCEPT ![t] = IF ev = "Exception" THEN "placeholder" ELSE "release"]
    /\ UNCHANGED <<outcomeVars, allocVars, processVars, containerVars, runnerVars, perfVars,
                   exceptLoadVars, global_lock, loadRuns>>

\* __call__ 464: BaseTest(...) is constructed inside the except handler; what it
\* raises, or a keyboard interrupt during it, leaves __call__
ConstructPlaceholder(t, ev) ==
    /\ loadpc[t] = "placeholder"
    /\ loadpc' = [loadpc EXCEPT ![t] = IF ev = "ok" THEN "release" ELSE "raised"]
    /\ UNCHANGED <<outcomeVars, allocVars, processVars, containerVars, runnerVars, perfVars,
                   exceptLoadVars, global_lock, loadRuns>>

\* __call__ 465: global_lock.release(); the call goes on to 467-526
ReleaseGlobalLock(t) ==
    /\ loadpc[t] = "release"
    /\ global_lock' = 0
    /\ loadpc' = [loadpc EXCEPT ![t] = "returned"]
    /\ UNCHANGED <<outcomeVars, allocVars, processVars, containerVars, runnerVars, perfVars,
                   exceptLoadVars, loadRuns>>

InitLoad ==
    /\ InitOutcomeVars
    /\ InitAllocVars
    /\ InitProcessVars
    /\ defaultAbortOnError = FALSE
    /\ defaultIgnoreExitStatus = TRUE
    /\ IdleContainerVars
    /\ IdleRunnerVars
    /\ InitPerfVars
    /\ IdleToolVars

NextLoad ==
    \/ \E t \in Workers : CallContainer(t)
    \/ \E t \in Workers : AcquireGlobalLock(t)
    \/ \E t \in Workers, ev \in StageEvents : LoadTestClass(t, ev)
    \/ \E t \in Workers, ev \in StageEvents : ConstructPlaceholder(t, ev)
    \/ \E t \in Workers : ReleaseGlobalLock(t)

SpecLoad == InitLoad /\ [][NextLoad]_vars

(***************************************************************************)
(* C40: at most one container at a time is inside the load step, and a     *)
(* container that has left the step, however it left it, does not hold     *)
(* global_lock: a failing load on one worker never blocks the others.      *)
(***************************************************************************)
inLoadStep(t) == loadpc[t] \in {"import", "placeholder", "release"}

C40_GlobalLockReleasedOnEveryExit ==
    /\ \A t1, t2 \in Workers : (inLoadStep(t1) /\ inLoadStep(t2)) => t1 = t2
    /\ \A t \in Workers : ~inLoadStep(t) => global_lock # t

====
